---- MODULE Spec2Model ----
(***************************************************************************)
(* Model of the Snapshot Verification API (EpixZone/Claimer-API).          *)
(*                                                                         *)
(* The server is an express application (src/unnamed/part_001, lines       *)
(* 1-607).  Its state is the Snapshots table; its handlers are async       *)
(* functions that run to completion between two awaits, so every action    *)
(* below is the code between two awaits of one handler.                    *)
(*                                                                         *)
(* BigInt values are unbounded in the program and exceed the 32 bit        *)
(* integers of the model checker (the target is 1184476900000000), so a    *)
(* BigInt is modelled as the sequence of its decimal digits, least         *)
(* significant first, without leading zeros; 0n is the empty sequence.     *)
(***************************************************************************)
EXTENDS Integers, Sequences, FiniteSets, TLC

VARIABLES
    store,        \* the Snapshots table, rows in id order
    reqs,         \* the POST /verify-snapshot requests: position, inputs, response
    tipHeight,    \* the chain node: tip height of the address indexer
    chainBalance, \* the chain node: indexed balance of every x42 address
    now,          \* the wall clock, relative to the claim deadline
    notifs,       \* the Discord notifications dispatched, and their outcome
    csvRuns,      \* the GET /download-csv responses sent so far
    reads,        \* the other GET handlers: /total-claimed in flight, last response
    fmt           \* the last call of a formatting helper: its input and its result

vars == <<store, reqs, tipHeight, chainBalance, now, notifs, csvRuns, reads, fmt>>

-----------------------------------------------------------------------------
(* BigInt arithmetic.  A BigInt is a sign and a magnitude; the magnitude   *)
(* is the sequence of its decimal digits, least significant first, without *)
(* leading zeros (<< >> is zero, which is never negative).                  *)

RECURSIVE Norm(_)
Norm(a) ==
    IF a = << >> THEN a
    ELSE IF a[Len(a)] = 0 THEN Norm(SubSeq(a, 1, Len(a) - 1)) ELSE a

\* the digits of a natural number of the model
RECURSIVE MagOf(_)
MagOf(n) == IF n = 0 THEN << >> ELSE <<n % 10>> \o MagOf(n \div 10)

RECURSIVE AddC(_, _, _)
AddC(a, b, c) ==
    IF a = << >> /\ b = << >>
    THEN (IF c = 0 THEN << >> ELSE <<c>>)
    ELSE LET da == IF a = << >> THEN 0 ELSE Head(a)
             db == IF b = << >> THEN 0 ELSE Head(b)
             s  == da + db + c
         IN  <<s % 10>> \o AddC(IF a = << >> THEN a ELSE Tail(a),
                                IF b = << >> THEN b ELSE Tail(b),
                                s \div 10)

MagAdd(a, b) == AddC(a, b, 0)

RECURSIVE CmpFrom(_, _, _)
CmpFrom(a, b, i) ==
    IF i = 0 THEN 0
    ELSE IF a[i] > b[i] THEN 1
    ELSE IF a[i] < b[i] THEN -1
    ELSE CmpFrom(a, b, i - 1)

MagCmp(a, b) ==
    IF Len(a) > Len(b) THEN 1
    ELSE IF Len(a) < Len(b) THEN -1
    ELSE CmpFrom(a, b, Len(a))

RECURSIVE SubB(_, _, _)
SubB(a, b, c) ==
    IF a = << >> THEN << >>
    ELSE LET db == IF b = << >> THEN 0 ELSE Head(b)
             d  == Head(a) - db - c
         IN  <<IF d < 0 THEN d + 10 ELSE d>>
                 \o SubB(Tail(a), IF b = << >> THEN b ELSE Tail(b),
                         IF d < 0 THEN 1 ELSE 0)

\* a - b for magnitudes a >= b
MagSub(a, b) == Norm(SubB(a, b, 0))

RECURSIVE MulD(_, _, _)
MulD(a, d, c) ==
    IF a = << >> THEN (IF c = 0 THEN << >> ELSE <<c>>)
    ELSE LET p == Head(a) * d + c
         IN  <<p % 10>> \o MulD(Tail(a), d, p \div 10)

MulDigit(a, d) == IF d = 0 THEN << >> ELSE MulD(a, d, 0)

Shift(a) == IF a = << >> THEN a ELSE <<0>> \o a

RECURSIVE MagMul(_, _)
MagMul(a, b) ==
    IF a = << >> \/ b = << >> THEN << >>
    ELSE MagAdd(MulDigit(a, Head(b)), Shift(MagMul(a, Tail(b))))

RECURSIVE QDigit(_, _, _)
QDigit(r, b, q) ==
    IF MagCmp(r, b) < 0 THEN [q |-> q, r |-> r]
    ELSE QDigit(MagSub(r, b), b, q + 1)

\* Long division: digit i of a, most significant first, with the remainder r
\* and the quotient digits q found so far.  The test on the digit has it
\* computed before the next step is taken.
RECURSIVE DivStep(_, _, _, _, _)
DivStep(a, b, i, r, q) ==
    IF i = 0 THEN [q |-> q, r |-> r]
    ELSE LET qd == QDigit(Norm(<<a[i]>> \o r), b, 0)
         IN  IF qd.q <= 9 /\ Len(q) >= 0
             THEN DivStep(a, b, i - 1, qd.r, <<qd.q>> \o q)
             ELSE [q |-> q, r |-> r]

\* quotient and remainder of magnitudes, b # 0
MagDivMod(a, b) ==
    LET res == DivStep(a, b, Len(a), << >>, << >>)
    IN  [q |-> Norm(res.q), r |-> res.r]

\* a BigInt of a sign and a magnitude
Big(neg, mag) == [neg |-> neg /\ mag # << >>, mag |-> mag]

\* BigInt(n) of an integer n
BigInt(n) == IF n < 0 THEN Big(TRUE, MagOf(-n)) ELSE Big(FALSE, MagOf(n))

\* 0n
Zero == Big(FALSE, << >>)

\* x + y
BigAdd(x, y) ==
    IF x.neg = y.neg THEN Big(x.neg, MagAdd(x.mag, y.mag))
    ELSE IF MagCmp(x.mag, y.mag) >= 0
    THEN Big(x.neg, MagSub(x.mag, y.mag))
    ELSE Big(y.neg, MagSub(y.mag, x.mag))

\* -x
BigNeg(x) == Big(~x.neg, x.mag)

\* x - y
BigSub(x, y) == BigAdd(x, BigNeg(y))

\* x * y
BigMul(x, y) == Big(x.neg # y.neg, MagMul(x.mag, y.mag))

\* x > y
BigGt(x, y) ==
    IF x.neg # y.neg THEN y.neg
    ELSE IF x.neg THEN MagCmp(x.mag, y.mag) < 0
    ELSE MagCmp(x.mag, y.mag) > 0

\* The RangeError a BigInt division by 0n throws
RangeError == [error |-> "RangeError: Division by zero"]

\* x / y: the quotient truncated towards zero
BigDiv(x, y) ==
    IF y.mag = << >> THEN RangeError
    ELSE Big(x.neg # y.neg, MagDivMod(x.mag, y.mag).q)

\* x % y: the remainder, with the sign of x
BigMod(x, y) ==
    IF y.mag = << >> THEN RangeError
    ELSE Big(x.neg, MagDivMod(x.mag, y.mag).r)

-----------------------------------------------------------------------------
(* Bounds of the model.                                                    *)

\* rows of the Snapshots table a redistribution input holds
MaxClaims == 2

\* GET /download-csv responses kept for comparison
MaxRuns == 2

\* destination (epix) addresses, numbered in their lexical order
NumEpix == 2

EpixAddrs == 1..NumEpix

\* source (x42) addresses that submit claims
NumX42 == 2

X42Addrs == 1..NumX42

\* POST /verify-snapshot requests
NumReqs == 2

ReqIds == 1..NumReqs

\* blocks the indexer tip may advance past the snapshot height
MaxTipAdvance == 1

\* ticks of the wall clock past the claim deadline
MaxNow == 1

\* characters of a field handed to escapeCsvField
MaxFieldLen == 3

\* the balances, in satoshis, that occur: 0, 7,000,000 coins (below the
\* target) and 11,844,769 coins (the target itself)
Balances ==
    {BigInt(0), BigMul(BigInt(7000000), BigInt(100000000)),
     BigMul(BigInt(11844769), BigInt(100000000))}

-----------------------------------------------------------------------------
(* GET /download-csv: the redistribution.                                  *)

TOTAL_SUPPLY == 23689538

\* TOTAL_SUPPLY / 2 (an exact float division: TOTAL_SUPPLY is even)
TARGET_BALANCE == TOTAL_SUPPLY \div 2

\* the literal 100000000 (satoshis per coin) of the handler
SATS == 100000000

TARGET_BALANCE_SATS == BigMul(BigInt(TARGET_BALANCE), BigInt(SATS))

\* A JavaScript Map: its entries <<key, value>> in insertion order
MapHas(m, k) == \E i \in 1..Len(m) : m[i][1] = k

MapGet(m, k) == m[CHOOSE i \in 1..Len(m) : m[i][1] = k][2]

MapSet(m, k, v) ==
    IF MapHas(m, k)
    THEN [i \in 1..Len(m) |-> IF m[i][1] = k THEN <<k, v>> ELSE m[i]]
    ELSE Append(m, <<k, v>>)

\* (mutant) the balance of a later claim replaces the sum of the earlier ones
RECURSIVE AggregateBalancesOverwrite(_, _, _)
AggregateBalancesOverwrite(snapshots, i, m) ==
    IF i > Len(snapshots) THEN m
    ELSE AggregateBalancesOverwrite(snapshots, i + 1,
             MapSet(m, snapshots[i].epix_address, snapshots[i].snapshot_balance))

\* snapshots.forEach: the balance summed per epix_address
RECURSIVE AggregateBalances(_, _, _)
AggregateBalances(snapshots, i, m) ==
    IF i > Len(snapshots) THEN m
    ELSE LET snapshot        == snapshots[i]
             currentBalance  == snapshot.snapshot_balance
             existingBalance == IF MapHas(m, snapshot.epix_address)
                                THEN MapGet(m, snapshot.epix_address)
                                ELSE Zero
         IN  AggregateBalances(snapshots, i + 1,
                 MapSet(m, snapshot.epix_address,
                        BigAdd(existingBalance, currentBalance)))

aggregatedBalances(snapshots) == AggregateBalances(snapshots, 1, << >>)

\* (mutant) the details of a destination are replaced by the latest claim
RECURSIVE AggregateDetailsLatestOnly(_, _, _)
AggregateDetailsLatestOnly(snapshots, i, m) ==
    IF i > Len(snapshots) THEN m
    ELSE LET snapshot == snapshots[i]
         IN  AggregateDetailsLatestOnly(snapshots, i + 1,
                 MapSet(m, snapshot.epix_address,
                        <<[x42_address      |-> snapshot.x42_address,
                           snapshot_balance |-> snapshot.snapshot_balance,
                           signature        |-> snapshot.signature,
                           raw_json         |-> snapshot.raw_json]>>))

\* snapshots.forEach, detailed: the source rows kept per epix_address
RECURSIVE AggregateDetails(_, _, _)
AggregateDetails(snapshots, i, m) ==
    IF i > Len(snapshots) THEN m
    ELSE LET snapshot == snapshots[i]
             details  == IF MapHas(m, snapshot.epix_address)
                         THEN MapGet(m, snapshot.epix_address)
                         ELSE << >>
         IN  AggregateDetails(snapshots, i + 1,
                 MapSet(m, snapshot.epix_address,
                        Append(details,
                               [x42_address      |-> snapshot.x42_address,
                                snapshot_balance |-> snapshot.snapshot_balance,
                                signature        |-> snapshot.signature,
                                raw_json         |-> snapshot.raw_json])))

aggregatedDetails(snapshots) == AggregateDetails(snapshots, 1, << >>)

\* Array.from(aggregatedBalances.values()).reduce((sum, b) => sum + b, 0n)
RECURSIVE SumValues(_, _)
SumValues(entries, i) ==
    IF i > Len(entries) THEN Zero
    ELSE BigAdd(entries[i][2], SumValues(entries, i + 1))

totalClaimedRaw(entries) == SumValues(entries, 1)

\* (mutant) the quotient of the multiplier is rounded up
multiplierRoundedUp(total, target) ==
    IF BigGt(total, target)
    THEN BigAdd(BigDiv(BigMul(target, BigInt(SATS)), total), BigInt(1))
    ELSE BigInt(SATS)

\* (mutant) the share to deduct is taken for the multiplier
multiplierOfDeduction(total, target) ==
    IF BigGt(total, target)
    THEN BigDiv(BigMul(BigSub(target, total), BigInt(SATS)), total)
    ELSE BigInt(SATS)

\* the multiplier, scaled by 100000000, for a target in satoshis
multiplierBigInt(total, target) ==
    IF BigGt(total, target)
    THEN BigDiv(BigMul(target, BigInt(SATS)), total)
    ELSE BigInt(SATS)

\* (mutant) the last entry does not take what remains of the target
CompactFinalBalanceScaled(entries, i, multiplier, target, totalFinalBalance) ==
    BigDiv(BigMul(entries[i][2], multiplier), BigInt(SATS))

\* finalBalance of entry i, given the totalFinalBalance accumulated before it
CompactFinalBalance(entries, i, multiplier, target, totalFinalBalance) ==
    LET originalBalance == entries[i][2]
        finalBalance    == BigDiv(BigMul(originalBalance, multiplier), BigInt(SATS))
        remaining       == BigSub(target, totalFinalBalance)
    IN  IF i = Len(entries) /\ BigGt(remaining, Zero)
        THEN remaining
        ELSE finalBalance

\* aggregatedEntries.map(...) of the compact branch, from entry i on
RECURSIVE CompactRows(_, _, _, _, _)
CompactRows(entries, i, multiplier, target, totalFinalBalance) ==
    IF i > Len(entries) THEN << >>
    ELSE LET finalBalance ==
                 CompactFinalBalance(entries, i, multiplier, target, totalFinalBalance)
         IN  <<[epix_address |-> entries[i][1], finalBalance |-> finalBalance]>>
                 \o CompactRows(entries, i + 1, multiplier, target,
                                BigAdd(totalFinalBalance, finalBalance))

\* (mutant) the detailed branch lacks the step of the last entry
DetailedFinalBalanceScaled(entries, i, multiplier, target, totalFinalBalance) ==
    BigDiv(BigMul(entries[i][2], multiplier), BigInt(SATS))

\* finalBalance of entry i in the detailed branch
DetailedFinalBalance(entries, i, multiplier, target, totalFinalBalance) ==
    LET originalBalance == entries[i][2]
        finalBalance    == BigDiv(BigMul(originalBalance, multiplier), BigInt(SATS))
        remaining       == BigSub(target, totalFinalBalance)
    IN  IF i = Len(entries) /\ BigGt(remaining, Zero)
        THEN remaining
        ELSE finalBalance

\* details.map(...): one row per x42 source of an epix address
DetailRowsOf(epixAddress, details, finalBalance) ==
    [j \in 1..Len(details) |->
        [epix_address     |-> epixAddress,
         x42_address      |-> details[j].x42_address,
         original_balance |-> details[j].snapshot_balance,
         finalBalance     |-> finalBalance,
         deduction_amount |-> BigSub(details[j].snapshot_balance, finalBalance),
         signature        |-> details[j].signature,
         raw_json         |-> details[j].raw_json]]

\* aggregatedEntries.map(...) of the detailed branch, from entry i on
RECURSIVE DetailedRows(_, _, _, _, _, _)
DetailedRows(entries, detailsMap, i, multiplier, target, totalFinalBalance) ==
    IF i > Len(entries) THEN << >>
    ELSE LET finalBalance ==
                 DetailedFinalBalance(entries, i, multiplier, target, totalFinalBalance)
         IN  DetailRowsOf(entries[i][1], MapGet(detailsMap, entries[i][1]), finalBalance)
                 \o DetailedRows(entries, detailsMap, i + 1, multiplier, target,
                                 BigAdd(totalFinalBalance, finalBalance))

\* The response of GET /download-csv over the rows findAll returned
CsvResponse(snapshots, detailed) ==
    LET entries    == aggregatedBalances(snapshots)
        total      == totalClaimedRaw(entries)
        multiplier == multiplierBigInt(total, TARGET_BALANCE_SATS)
        rows       == IF multiplier = RangeError THEN << >>
                      ELSE IF detailed
                      THEN DetailedRows(entries, aggregatedDetails(snapshots), 1,
                                        multiplier, TARGET_BALANCE_SATS, Zero)
                      ELSE CompactRows(entries, 1, multiplier,
                                       TARGET_BALANCE_SATS, Zero)
    IN  IF multiplier = RangeError
        THEN [detailed |-> detailed, snapshots |-> snapshots, status |-> 500,
              entries |-> entries, multiplier |-> Zero, rows |-> << >>]
        ELSE [detailed |-> detailed, snapshots |-> snapshots, status |-> 200,
              entries |-> entries, multiplier |-> multiplier, rows |-> rows]

\* The response when Snapshot.findAll rejects: nothing was read
CsvError ==
    [snapshots |-> << >>, status |-> 500,
     entries |-> << >>, multiplier |-> Zero, rows |-> << >>]

\* (mutant) the rows are read in two pages and a commit in between makes the
\* second page start one row late: the first row is missed
DownloadCsvTornRead(detailed) ==
    /\ Cardinality(csvRuns) < MaxRuns
    /\ \E dbOk \in BOOLEAN :
           csvRuns' = csvRuns \cup
               {IF dbOk
                THEN CsvResponse(IF Len(store) >= 2 THEN Tail(store) ELSE store,
                                 detailed)
                ELSE CsvError}
    /\ UNCHANGED <<store, reqs, tipHeight, chainBalance, now, notifs, reads, fmt>>

DownloadCsv(detailed) ==
    /\ Cardinality(csvRuns) < MaxRuns
    /\ \E dbOk \in BOOLEAN :
           csvRuns' = csvRuns \cup
               {IF dbOk THEN CsvResponse(store, detailed) ELSE CsvError}
    /\ UNCHANGED <<store, reqs, tipHeight, chainBalance, now, notifs, reads, fmt>>

-----------------------------------------------------------------------------
(* Strings.  A string is the sequence of its characters.                   *)

\* the characters of the decimal digits
DigitChars == <<"0", "1", "2", "3", "4", "5", "6", "7", "8", "9">>

IsDigitChar(c) == \E d \in 1..Len(DigitChars) : DigitChars[d] = c

\* the digits of a magnitude as characters, most significant first
RECURSIVE MagChars(_)
MagChars(a) ==
    IF a = << >> THEN << >>
    ELSE MagChars(Tail(a)) \o <<DigitChars[Head(a) + 1]>>

\* BigInt.prototype.toString()
toString(x) ==
    IF x.mag = << >> THEN <<"0">>
    ELSE (IF x.neg THEN <<"-">> ELSE << >>) \o MagChars(x.mag)

\* String.prototype.padStart(targetLength, padString) for a one-character pad
RECURSIVE padStart(_, _, _)
padStart(s, targetLength, padString) ==
    IF Len(s) >= targetLength THEN s
    ELSE padStart(<<padString>> \o s, targetLength, padString)

-----------------------------------------------------------------------------
(* utils/discord.js: the message of a notification.                        *)

\* decimals of the amount of a notification
AMOUNT_DECIMALS == 8

\* (snapshotBalance / 100000000).toFixed(8): the float division and the
\* rounding give the exact decimal for balances up to the total supply
formattedBalance(snapshotBalance) ==
    toString(BigDiv(snapshotBalance, BigInt(SATS))) \o <<".">>
        \o padStart(toString(BigMod(snapshotBalance, BigInt(SATS))),
                    AMOUNT_DECIMALS, "0")

\* the fields of the embed of webhookMessage
webhookMessage(x42Address, snapshotBalance) ==
    [x42Address |-> x42Address,
     Amount     |-> formattedBalance(snapshotBalance) \o <<" ", "x", "4", "2">>]

-----------------------------------------------------------------------------
(* POST /verify-snapshot.                                                  *)

\* the block height of the snapshot
SNAPSHOT_HEIGHT == 3000000

\* the signature header is absent
NoSignature == [signer |-> 0, message |-> << >>]

\* no response is sent yet
NoResponse == [status |-> 0, text |-> ""]

\* no request is received yet
NoBody == [x42_address |-> 0, epix_address |-> 0, snapshot_balance |-> Zero]

\* the request bodies a client may send (a claimed balance of 0 takes the
\* same path through the handler as any other balance)
Bodies ==
    [x42_address : X42Addrs, epix_address : EpixAddrs,
     snapshot_balance : Balances \ {Zero}]

\* JSON.stringify(req.body): the values of the body's keys, in order
JSONstringify(body) ==
    <<"x42_address", body.x42_address, "epix_address", body.epix_address,
      "snapshot_balance", body.snapshot_balance>>

\* A signature: the message signed and the address whose key signed it
Sign(address, message) == [signer |-> address, message |-> message]

\* the signature headers a client may send with a body
Signatures(body) ==
    {NoSignature} \cup {Sign(a, JSONstringify(body)) : a \in X42Addrs}

\* The chain node's api/Wallet/verifymessage
VerifyMessage(signature, externalAddress, message) ==
    IF signature.signer = externalAddress /\ signature.message = message
    THEN "True" ELSE "False"

Respond(status, text) == [status |-> status, text |-> text]

\* what a request has observed so far: the replies of the chain node and of
\* the table, the clock it read, the id of the row it inserted, and, of its
\* notification, the webhook URL read and the reply to the POST.
\* balanceTip: the tip of the node when it answered with the balance
NothingSeen ==
    [tipReply |-> "none", tipHeight |-> 0, clockRead |-> FALSE, now |-> 0,
     existing |-> "none", balanceReply |-> "none", balance |-> Zero,
     balanceTip |-> 0, verifyReply |-> "none", inserted |-> 0,
     webhookUrl |-> "unread", post |-> "none"]

\* calls: the chain calls, table reads and table inserts the request has made
IdleReq ==
    [pc |-> "idle", body |-> NoBody, signature |-> NoSignature,
     response |-> NoResponse, notif |-> "none",
     calls |-> << >>, seen |-> NothingSeen]

\* the request, in the state q, ends with a response
Finish(r, q, response) ==
    reqs' = [reqs EXCEPT ![r] = [q EXCEPT !.pc = "done", !.response = response]]

\* the request, in the state q, goes on to its next await
Goto(r, q, pc) == reqs' = [reqs EXCEPT ![r] = [q EXCEPT !.pc = pc]]

\* (the header is never read as absent)
MissingSignatureNever(signature) == FALSE

\* !signature
MissingSignature(signature) == signature = NoSignature

\* The request arrives; without a signature header it is refused, otherwise
\* the tip of the address indexer is asked for
Receive(r) ==
    /\ reqs[r].pc = "idle"
    /\ \E body \in Bodies : \E signature \in Signatures(body) :
         LET q == [reqs[r] EXCEPT !.body = body, !.signature = signature]
         IN  IF MissingSignature(signature)
             THEN Finish(r, q, Respond(400, "Signature is required"))
             ELSE Goto(r, [q EXCEPT !.calls = Append(@, "addressindexertip")], "tip")
    /\ UNCHANGED <<store, tipHeight, chainBalance, now, notifs, csvRuns, reads, fmt>>

\* what axios.get(addressindexertip) may give: a rejection, a reply without
\* data or whose tipHeight is missing or falsy, or the tip height
TipReplies == {"error", "malformed", "tipHeight"}

\* !blockHeightResponse.data.tipHeight, for a reply that carries a height:
\* the height 0 is falsy
NoTipHeight(height) == height = 0

\* tipHeight != 3000000
WrongHeight(height) == height # SNAPSHOT_HEIGHT

\* (the cutoff instant itself counts as past the deadline)
DeadlineReached(t) == t >= 0

\* new Date() > claimDeadline, for the clock value t (0 is the deadline)
DeadlinePassed(t) == t > 0

\* (the deadline is checked before the block height)
TipReplyDeadlineFirst(r) ==
    /\ reqs[r].pc = "tip"
    /\ \E reply \in TipReplies :
         LET q == [reqs[r] EXCEPT !.seen.tipReply = reply]
             h == [q EXCEPT !.seen.tipHeight = tipHeight]
             t == [h EXCEPT !.seen.clockRead = TRUE, !.seen.now = now]
         IN  IF reply = "error"
             THEN Finish(r, q, Respond(500, "Internal server error"))
             ELSE IF reply = "malformed"
             THEN Finish(r, q, Respond(400, "Unable to retrieve block height"))
             ELSE IF NoTipHeight(tipHeight)
             THEN Finish(r, h, Respond(400, "Unable to retrieve block height"))
             ELSE IF DeadlinePassed(now)
             THEN Finish(r, t, Respond(400,
                    "Claim period has ended. The deadline was June 6th, 2025 at 00:00:00 UTC"))
             ELSE IF WrongHeight(tipHeight)
             THEN Finish(r, t, Respond(400, "Block height must be at 3,000,000 blocks"))
             ELSE Goto(r, [t EXCEPT !.calls = Append(@, "findOne")], "find")
    /\ UNCHANGED <<store, tipHeight, chainBalance, now, notifs, csvRuns, reads, fmt>>

\* The tip reply arrives: block height check, then the deadline check, then
\* Snapshot.findOne is asked
TipReply(r) ==
    /\ reqs[r].pc = "tip"
    /\ \E reply \in TipReplies :
         LET q == [reqs[r] EXCEPT !.seen.tipReply = reply]
             h == [q EXCEPT !.seen.tipHeight = tipHeight]
             t == [h EXCEPT !.seen.clockRead = TRUE, !.seen.now = now]
         IN  IF reply = "error"
             THEN Finish(r, q, Respond(500, "Internal server error"))
             ELSE IF reply = "malformed"
             THEN Finish(r, q, Respond(400, "Unable to retrieve block height"))
             ELSE IF NoTipHeight(tipHeight)
             THEN Finish(r, h, Respond(400, "Unable to retrieve block height"))
             ELSE IF WrongHeight(tipHeight)
             THEN Finish(r, h, Respond(400, "Block height must be at 3,000,000 blocks"))
             ELSE IF DeadlinePassed(now)
             THEN Finish(r, t, Respond(400,
                    "Claim period has ended. The deadline was June 6th, 2025 at 00:00:00 UTC"))
             ELSE Goto(r, [t EXCEPT !.calls = Append(@, "findOne")], "find")
    /\ UNCHANGED <<store, tipHeight, chainBalance, now, notifs, csvRuns, reads, fmt>>

\* Snapshot.findOne({ where: { x42_address } }) over the table
findOne(x42_address) == \E i \in 1..Len(store) : store[i].x42_address = x42_address

\* (the result of the lookup is ignored)
IsDuplicateNever(existingSnapshot) == FALSE

\* if (existingSnapshot)
IsDuplicate(existingSnapshot) == existingSnapshot

\* Snapshot.findOne resolves or rejects: duplicate check, then the balance of
\* the address is asked for
FindReply(r) ==
    /\ reqs[r].pc = "find"
    /\ \E dbOk \in BOOLEAN :
         IF ~dbOk
         THEN Finish(r, [reqs[r] EXCEPT !.seen.existing = "error"],
                     Respond(500, "Internal server error"))
         ELSE LET existingSnapshot == findOne(reqs[r].body.x42_address)
                  q == [reqs[r] EXCEPT !.seen.existing =
                           IF existingSnapshot THEN "found" ELSE "absent"]
              IN  IF IsDuplicate(existingSnapshot)
                  THEN Finish(r, q, Respond(400,
                         "Duplicate address. Snapshot was already verified."))
                  ELSE Goto(r, [q EXCEPT !.calls = Append(@, "getaddressesbalances")],
                            "balance")
    /\ UNCHANGED <<store, tipHeight, chainBalance, now, notifs, csvRuns, reads, fmt>>

\* what axios.get(getaddressesbalances) may give: a rejection, a reply
\* without balances[0], or the balance
BalanceReplies == {"error", "malformed", "balance"}

\* (a claimed balance below the chain balance is let through)
BalanceAbove(balance, snapshot_balance) == BigGt(snapshot_balance, balance)

\* balance !== snapshot_balance
BalanceMismatch(balance, snapshot_balance) == balance # snapshot_balance

\* The balance reply arrives: balance check, then the verification of the
\* signature is asked for
BalanceReply(r) ==
    /\ reqs[r].pc = "balance"
    /\ \E reply \in BalanceReplies :
         LET q == [reqs[r] EXCEPT !.seen.balanceReply = reply]
             b == [q EXCEPT !.seen.balance = chainBalance[reqs[r].body.x42_address],
                            !.seen.balanceTip = tipHeight]
         IN  IF reply = "error" \/ reply = "malformed"
             THEN Finish(r, q, Respond(500, "Internal server error"))
             ELSE IF BalanceMismatch(chainBalance[reqs[r].body.x42_address],
                                     reqs[r].body.snapshot_balance)
             THEN Finish(r, b, Respond(400, "Balance verification failed"))
             ELSE Goto(r, [b EXCEPT !.calls = Append(@, "verifymessage")], "verify")
    /\ UNCHANGED <<store, tipHeight, chainBalance, now, notifs, csvRuns, reads, fmt>>

\* what axios.post(verifymessage) may give: a rejection, a reply whose data
\* is neither "True" nor "False", or the result of the verification
VerifyReplies == {"error", "malformed", "data"}

\* (any reply of the node counts as affirmative)
NotAffirmativeNever(data) == FALSE

\* verificationResponse.data !== "True"
NotAffirmative(data) == data # "True"

\* (mutant) the signature is verified against the destination address
VerifyRequestOfDestination(r) ==
    [signature       |-> reqs[r].signature,
     externalAddress |-> reqs[r].body.epix_address,
     message         |-> JSONstringify(reqs[r].body)]

\* the body of the POST to api/Wallet/verifymessage
VerifyRequest(r) ==
    [signature       |-> reqs[r].signature,
     externalAddress |-> reqs[r].body.x42_address,
     message         |-> JSONstringify(reqs[r].body)]

\* The verification reply arrives: signature check, then Snapshot.create is
\* asked
VerifyReply(r) ==
    /\ reqs[r].pc = "verify"
    /\ \E reply \in VerifyReplies :
         LET data == IF reply = "malformed" THEN ""
                     ELSE VerifyMessage(VerifyRequest(r).signature,
                                        VerifyRequest(r).externalAddress,
                                        VerifyRequest(r).message)
             seen == IF reply = "data" THEN data ELSE reply
         IN  IF reply = "error"
             THEN Finish(r, [reqs[r] EXCEPT !.seen.verifyReply = seen],
                         Respond(500, "Internal server error"))
             ELSE IF NotAffirmative(data)
             THEN Finish(r, [reqs[r] EXCEPT !.seen.verifyReply = seen],
                         Respond(400, "Signature verification failed"))
             ELSE Goto(r, [reqs[r] EXCEPT !.seen.verifyReply = seen,
                                          !.calls = Append(@, "create")],
                       "create")
    /\ UNCHANGED <<store, tipHeight, chainBalance, now, notifs, csvRuns, reads, fmt>>

\* the row Snapshot.create inserts
NewSnapshot(r) ==
    [raw_json         |-> reqs[r].body,
     signature        |-> reqs[r].signature,
     x42_address      |-> reqs[r].body.x42_address,
     epix_address     |-> reqs[r].body.epix_address,
     snapshot_balance |-> reqs[r].body.snapshot_balance]

\* (mutant) the notification is sent about the destination address
NotificationOfDestination(r) ==
    [req |-> r, x42Address |-> reqs[r].body.epix_address,
     snapshotBalance |-> reqs[r].body.snapshot_balance,
     message |-> webhookMessage(reqs[r].body.epix_address,
                                reqs[r].body.snapshot_balance)]

\* sendSnapshotVerificationNotification(x42_address, snapshot_balance): the
\* arguments of the call and the message it builds for the webhook
Notification(r) ==
    [req |-> r, x42Address |-> reqs[r].body.x42_address,
     snapshotBalance |-> reqs[r].body.snapshot_balance,
     message |-> webhookMessage(reqs[r].body.x42_address,
                                reqs[r].body.snapshot_balance)]

\* (the table is dropped and rebuilt before the insert)
createAfterReset(table, row) == <<row>>

\* Snapshot.create: the table after the insert of a row
create(table, row) == Append(table, row)

\* (the insert is reported as failed after the row was written)
CreateReplyFailsAfterInsert(r) ==
    /\ reqs[r].pc = "create"
    /\ \E dbOk \in BOOLEAN :
         /\ store' = create(store, NewSnapshot(r))
         /\ IF ~dbOk
            THEN /\ Finish(r, reqs[r], Respond(500, "Internal server error"))
                 /\ UNCHANGED notifs
            ELSE /\ notifs' = Append(notifs,
                        Notification(r))
                 /\ Finish(r, [reqs[r] EXCEPT
                                  !.seen.inserted = Len(store) + 1,
                                  !.calls = Append(@, "sendSnapshotVerificationNotification"),
                                  !.notif = "dispatched"],
                           Respond(200, "Snapshot verified and stored successfully"))
    /\ UNCHANGED <<tipHeight, chainBalance, now, csvRuns, reads, fmt>>

\* (mutant) the notification is dispatched whether or not the insert succeeded
CreateReplyNotifiesAlways(r) ==
    /\ reqs[r].pc = "create"
    /\ \E dbOk \in BOOLEAN :
         /\ notifs' = Append(notifs,
                Notification(r))
         /\ IF ~dbOk
            THEN /\ Finish(r, reqs[r], Respond(500, "Internal server error"))
                 /\ UNCHANGED store
            ELSE /\ store' = create(store, NewSnapshot(r))
                 /\ Finish(r, [reqs[r] EXCEPT
                                  !.seen.inserted = Len(store) + 1,
                                  !.calls = Append(@, "sendSnapshotVerificationNotification"),
                                  !.notif = "dispatched"],
                           Respond(200, "Snapshot verified and stored successfully"))
    /\ UNCHANGED <<tipHeight, chainBalance, now, csvRuns, reads, fmt>>

\* Snapshot.create resolves or rejects; after the insert the notification is
\* dispatched, not awaited, and the response sent
CreateReply(r) ==
    /\ reqs[r].pc = "create"
    /\ \E dbOk \in BOOLEAN :
         IF ~dbOk
         THEN /\ Finish(r, reqs[r], Respond(500, "Internal server error"))
              /\ UNCHANGED <<store, notifs>>
         ELSE /\ store' = create(store, NewSnapshot(r))
              /\ notifs' = Append(notifs,
                     Notification(r))
              /\ Finish(r, [reqs[r] EXCEPT
                               !.seen.inserted = Len(store) + 1,
                               !.calls = Append(@, "sendSnapshotVerificationNotification"),
                               !.notif = "dispatched"],
                        Respond(200, "Snapshot verified and stored successfully"))
    /\ UNCHANGED <<tipHeight, chainBalance, now, csvRuns, reads, fmt>>

\* the webhook URL of the environment is set or is not; the POST to a URL
\* resolves or rejects
WebhookUrls == {"set", "unset"}
PostReplies == {"resolved", "rejected"}

\* (mutant) the failure of the POST is not caught
sendSnapshotVerificationNotificationUncaught(webhookUrl, postReply) ==
    IF webhookUrl = "unset"
    THEN [post |-> "none", resolved |-> "false"]
    ELSE IF postReply = "resolved"
    THEN [post |-> "resolved", resolved |-> "true"]
    ELSE [post |-> "rejected", resolved |-> "rejected"]

\* sendSnapshotVerificationNotification: without a webhook URL it returns
\* false before anything is posted; otherwise it posts the message and
\* returns true, and the catch turns a POST that rejects into false.
\* post: the reply to the POST made, "none" when no POST was made
sendSnapshotVerificationNotification(webhookUrl, postReply) ==
    IF webhookUrl = "unset"
    THEN [post |-> "none", resolved |-> "false"]
    ELSE IF postReply = "resolved"
    THEN [post |-> "resolved", resolved |-> "true"]
    ELSE [post |-> "rejected", resolved |-> "false"]

\* (mutant) a notification that fails turns the response into an error
NotifyReplyFailureAnswers(r) ==
    /\ reqs[r].notif = "dispatched"
    /\ \E webhookUrl \in WebhookUrls, postReply \in PostReplies :
         LET sent == sendSnapshotVerificationNotification(webhookUrl, postReply)
         IN  reqs' = [reqs EXCEPT ![r].notif = sent.resolved,
                                  ![r].seen.webhookUrl = webhookUrl,
                                  ![r].seen.post = sent.post,
                                  ![r].response =
                                      IF sent.resolved = "true" THEN @
                                      ELSE Respond(500, "Internal server error")]
    /\ UNCHANGED <<store, tipHeight, chainBalance, now, notifs, csvRuns, reads, fmt>>

\* the promise of sendSnapshotVerificationNotification settles: the request
\* keeps what it settled to
NotifyReply(r) ==
    /\ reqs[r].notif = "dispatched"
    /\ \E webhookUrl \in WebhookUrls, postReply \in PostReplies :
         LET sent == sendSnapshotVerificationNotification(webhookUrl, postReply)
         IN  reqs' = [reqs EXCEPT ![r].notif = sent.resolved,
                                  ![r].seen.webhookUrl = webhookUrl,
                                  ![r].seen.post = sent.post]
    /\ UNCHANGED <<store, tipHeight, chainBalance, now, notifs, csvRuns, reads, fmt>>

-----------------------------------------------------------------------------
(* The handlers that only read: GET /check-balance, /verify-address,       *)
(* /total-claimed, /claims and /get-blockheight.  A handler with a single  *)
(* await is one action: the reply of the node or of the table arrives and  *)
(* the response is sent.                                                   *)

\* what an aggregate of the table gives: null, or a number
SqlNull == [kind |-> "null", value |-> Zero]
SqlNumber(value) == [kind |-> "number", value |-> value]

\* the fields a response body may carry
NoData ==
    [balance |-> Zero, isvalid |-> FALSE, iswitness |-> FALSE, tipHeight |-> 0,
     rows |-> << >>, total_claimed |-> SqlNull, total_claims |-> 0]

ReadResponse(op, status, error, data) ==
    [op |-> op, status |-> status, error |-> error, data |-> data]

NoReads ==
    [total |-> [pc |-> "idle", totalClaimed |-> SqlNull],
     last  |-> ReadResponse("none", 0, "", NoData)]

\* the address query parameter: 0 stands for a request without it
AddressQueries == {0} \cup X42Addrs

\* GET /check-balance
CheckBalance ==
    /\ \E address \in AddressQueries :
       \E reply \in IF address = 0 THEN {"none"} ELSE BalanceReplies :
         reads' = [reads EXCEPT !.last =
            IF address = 0
            THEN ReadResponse("check-balance", 400, "Address is required", NoData)
            ELSE IF reply = "error"
            THEN ReadResponse("check-balance", 500, "Internal server error", NoData)
            ELSE IF reply = "malformed"
            THEN ReadResponse("check-balance", 400,
                     "Unable to retrieve balance for the given address", NoData)
            ELSE ReadResponse("check-balance", 200, "",
                     [NoData EXCEPT !.balance = chainBalance[address]])]
    /\ UNCHANGED <<store, reqs, tipHeight, chainBalance, now, notifs, csvRuns, fmt>>

\* GET /verify-address: the node's api/Node/validateaddress answers with
\* isvalid and iswitness, or the call is rejected
VerifyAddress ==
    /\ \E address \in AddressQueries :
       \E ok \in IF address = 0 THEN {FALSE} ELSE BOOLEAN :
       \E isvalid \in IF ok THEN BOOLEAN ELSE {FALSE} :
       \E iswitness \in IF ok THEN BOOLEAN ELSE {FALSE} :
         reads' = [reads EXCEPT !.last =
            IF address = 0
            THEN ReadResponse("verify-address", 400, "Address is required", NoData)
            ELSE IF ~ok
            THEN ReadResponse("verify-address", 500, "Internal server error", NoData)
            ELSE ReadResponse("verify-address", 200, "",
                     [NoData EXCEPT !.isvalid = isvalid, !.iswitness = iswitness])]
    /\ UNCHANGED <<store, reqs, tipHeight, chainBalance, now, notifs, csvRuns, fmt>>

\* GET /get-blockheight: a reply without data or without tipHeight, or
\* whose tipHeight is 0, is answered with 400
GetBlockheight ==
    /\ \E reply \in TipReplies :
         reads' = [reads EXCEPT !.last =
            IF reply = "error"
            THEN ReadResponse("get-blockheight", 500, "Internal server error", NoData)
            ELSE IF reply = "malformed" \/ NoTipHeight(tipHeight)
            THEN ReadResponse("get-blockheight", 400,
                     "Unable to retrieve block height", NoData)
            ELSE ReadResponse("get-blockheight", 200, "",
                     [NoData EXCEPT !.tipHeight = tipHeight])]
    /\ UNCHANGED <<store, reqs, tipHeight, chainBalance, now, notifs, csvRuns, fmt>>

\* pageSize when the query gives none
DefaultPageSize == 10

\* parseInt(req.query.page) and parseInt(req.query.pageSize): 0 stands for a
\* missing or non-numeric parameter (NaN)
PageQueries == 0..2

PageSizeQueries == 0..1

\* Snapshot.findAll with order id DESC, offset and limit, attributes raw_json
\* and signature
RECURSIVE findAllDesc(_, _, _)
findAllDesc(table, offset, limit) ==
    IF limit = 0 \/ offset >= Len(table) THEN << >>
    ELSE LET row == table[Len(table) - offset]
         IN  <<[raw_json |-> row.raw_json, signature |-> row.signature]>>
                 \o findAllDesc(table, offset + 1, limit - 1)

\* GET /claims
Claims ==
    /\ \E pageQuery \in PageQueries, pageSizeQuery \in PageSizeQueries,
          dbOk \in BOOLEAN :
         LET page     == IF pageQuery = 0 THEN 1 ELSE pageQuery
             pageSize == IF pageSizeQuery = 0 THEN DefaultPageSize ELSE pageSizeQuery
         IN  reads' = [reads EXCEPT !.last =
                IF ~dbOk
                THEN ReadResponse("claims", 500, "Internal server error", NoData)
                ELSE ReadResponse("claims", 200, "",
                         [NoData EXCEPT !.rows =
                             findAllDesc(store, (page - 1) * pageSize, pageSize)])]
    /\ UNCHANGED <<store, reqs, tipHeight, chainBalance, now, notifs, csvRuns, fmt>>

\* the balances of the rows from the i-th on, added up
RECURSIVE sumRows(_, _)
sumRows(table, i) ==
    IF i > Len(table) THEN Zero
    ELSE BigAdd(table[i].snapshot_balance, sumRows(table, i + 1))

\* Snapshot.sum('snapshot_balance'): SUM over no rows is null, otherwise
\* the number
sum(table) ==
    IF Len(table) = 0 THEN SqlNull ELSE SqlNumber(sumRows(table, 1))

\* Snapshot.count()
count(table) == Len(table)

\* GET /total-claimed, up to the reply of Snapshot.sum
TotalSum ==
    /\ reads.total.pc = "idle"
    /\ \E dbOk \in BOOLEAN :
         reads' =
            IF ~dbOk
            THEN [reads EXCEPT !.last =
                     ReadResponse("total-claimed", 500, "Internal server error", NoData)]
            ELSE [reads EXCEPT !.total = [pc |-> "count", totalClaimed |-> sum(store)]]
    /\ UNCHANGED <<store, reqs, tipHeight, chainBalance, now, notifs, csvRuns, fmt>>

\* GET /total-claimed, from the reply of Snapshot.count to the response
TotalCount ==
    /\ reads.total.pc = "count"
    /\ \E dbOk \in BOOLEAN :
         reads' = [total |-> NoReads.total,
                   last  |->
            IF ~dbOk
            THEN ReadResponse("total-claimed", 500, "Internal server error", NoData)
            ELSE ReadResponse("total-claimed", 200, "",
                     [NoData EXCEPT !.total_claimed = reads.total.totalClaimed,
                                    !.total_claims = count(store)])]
    /\ UNCHANGED <<store, reqs, tipHeight, chainBalance, now, notifs, csvRuns, fmt>>

-----------------------------------------------------------------------------
(* The formatting helpers of GET /download-csv.                            *)

\* a value handed to escapeCsvField: null, undefined or a string
NullField == [kind |-> "null", chars |-> << >>]

UndefinedField == [kind |-> "undefined", chars |-> << >>]

StringField(chars) == [kind |-> "string", chars |-> chars]

\* String.prototype.includes for a single character
includes(s, c) == \E i \in 1..Len(s) : s[i] = c

\* (mutant) the quotes inside the field are left as they are
replaceQuotesKept(s) == s

\* stringField.replace(/"/g, '""')
RECURSIVE replaceQuotes(_)
replaceQuotes(s) ==
    IF s = << >> THEN << >>
    ELSE (IF Head(s) = "\"" THEN <<"\"", "\"">> ELSE <<Head(s)>>)
             \o replaceQuotes(Tail(s))

escapeCsvField(field) ==
    IF field.kind = "null" \/ field.kind = "undefined" THEN << >>
    ELSE LET stringField == field.chars
         IN  IF \/ includes(stringField, ",") \/ includes(stringField, "\"")
                \/ includes(stringField, "\n") \/ includes(stringField, "\r")
             THEN <<"\"">> \o replaceQuotes(stringField) \o <<"\"">>
             ELSE stringField

\* s.replace(/(\d{2})$/, '.$1'): a string that does not end with two digits
\* is left as it is
replaceLastTwoDigits(s) ==
    IF Len(s) >= 2 /\ IsDigitChar(s[Len(s) - 1]) /\ IsDigitChar(s[Len(s)])
    THEN SubSeq(s, 1, Len(s) - 2) \o <<".">> \o SubSeq(s, Len(s) - 1, Len(s))
    ELSE s

\* the literal 10000 of the deduction_percentage column
BASIS_POINTS == 10000

\* (BigInt(100000000) - multiplierBigInt) * BigInt(10000) / BigInt(100000000)
deductionBasisPoints(multiplier) ==
    BigDiv(BigMul(BigSub(BigInt(SATS), multiplier), BigInt(BASIS_POINTS)),
           BigInt(SATS))

\* the deduction_percentage column of the detailed export
deduction_percentage(multiplier) ==
    replaceLastTwoDigits(toString(deductionBasisPoints(multiplier))) \o <<"%">>

\* digits after the point of a balance string
COIN_DECIMALS == 8

\* (mutant) the remainder is not padded with zeros
finalBalanceStrUnpadded(finalBalance) ==
    toString(BigDiv(finalBalance, BigInt(SATS))) \o <<".">>
        \o toString(BigMod(finalBalance, BigInt(SATS)))

\* (finalBalance / BigInt(100000000)).toString() + '.' +
\* (finalBalance % BigInt(100000000)).toString().padStart(8, '0')
finalBalanceStr(finalBalance) ==
    toString(BigDiv(finalBalance, BigInt(SATS))) \o <<".">>
        \o padStart(toString(BigMod(finalBalance, BigInt(SATS))),
                    COIN_DECIMALS, "0")

\* no helper was called yet
NoFormat ==
    [op |-> "none", field |-> NullField, multiplier |-> Zero,
     finalBalance |-> Zero, out |-> << >>]

\* the characters of the fields: a letter and the four that need quoting
FieldChars == {"a", ",", "\"", "\n", "\r"}

\* the fields escapeCsvField is called with
Fields ==
    {NullField, UndefinedField}
        \cup {StringField(chars) :
                 chars \in UNION {[1..n -> FieldChars] : n \in 0..MaxFieldLen}}

\* a call escapeCsvField(field)
EscapeField ==
    /\ \E field \in Fields :
         fmt' = [op |-> "escapeCsvField", field |-> field, multiplier |-> Zero,
                 finalBalance |-> Zero, out |-> escapeCsvField(field)]
    /\ UNCHANGED <<store, reqs, tipHeight, chainBalance, now, notifs, csvRuns, reads>>

\* the multipliers the column is computed for: none of the target left, a
\* half, the one of two claims of 7,000,000 coins, some that deduct less than
\* one percent, and the multiplier 100000000 of a total below the target
Multipliers ==
    {BigInt(0), BigInt(50000000), BigInt(84605492), BigInt(99850000),
     BigInt(99945030), BigInt(99999999), BigInt(SATS)}

\* the deduction_percentage column for a multiplier
DeductionPercentage ==
    /\ \E multiplier \in Multipliers :
         fmt' = [op |-> "deduction_percentage", field |-> NullField,
                 multiplier |-> multiplier, finalBalance |-> Zero,
                 out |-> deduction_percentage(multiplier)]
    /\ UNCHANGED <<store, reqs, tipHeight, chainBalance, now, notifs, csvRuns, reads>>

\* the final balances the string is rendered for: the balances of the
\* claims, the target less a satoshi, and balances around one coin and
\* around one satoshi
FinalBalances ==
    Balances \cup
    {BigSub(TARGET_BALANCE_SATS, BigInt(1)), BigInt(1), BigInt(10),
     BigInt(99999999), BigInt(SATS), BigInt(100000001), BigInt(123456789),
     BigInt(1234567890), BigMul(BigInt(TOTAL_SUPPLY), BigInt(SATS))}

\* the final_balance column for a final balance
FinalBalanceStr ==
    /\ \E finalBalance \in FinalBalances :
         fmt' = [op |-> "finalBalanceStr", field |-> NullField,
                 multiplier |-> Zero, finalBalance |-> finalBalance,
                 out |-> finalBalanceStr(finalBalance)]
    /\ UNCHANGED <<store, reqs, tipHeight, chainBalance, now, notifs, csvRuns, reads>>

-----------------------------------------------------------------------------
(* The chain node, the clock and the specification of the submissions.     *)

\* the balance every address holds at the snapshot height
InitialBalance == BigMul(BigInt(7000000), BigInt(SATS))

\* the tips a node may be at when a submission arrives: nothing indexed
\* yet, one block short of the snapshot height, the snapshot height
InitialTips == {0, SNAPSHOT_HEIGHT - 1, SNAPSHOT_HEIGHT}

\* the tip after the next advance: a node that is far behind syncs up to
\* the block before the snapshot height, then blocks come one by one
NextTip(height) ==
    IF height < SNAPSHOT_HEIGHT - 1 THEN SNAPSHOT_HEIGHT - 1 ELSE height + 1

\* The chain: the indexer tip advances.  Up to the snapshot height the
\* addresses hold their snapshot balance; a block after it may change the
\* indexed balance of an address
ChainAdvance ==
    /\ tipHeight < SNAPSHOT_HEIGHT + MaxTipAdvance
    /\ tipHeight' = NextTip(tipHeight)
    /\ IF NextTip(tipHeight) <= SNAPSHOT_HEIGHT
       THEN UNCHANGED chainBalance
       ELSE \E a \in X42Addrs, b \in Balances :
                chainBalance' = [chainBalance EXCEPT ![a] = b]
    /\ UNCHANGED <<store, reqs, now, notifs, csvRuns, reads, fmt>>

\* The wall clock: -1 before the deadline, 0 at the deadline, then past it
Tick ==
    /\ now < MaxNow
    /\ now' = now + 1
    /\ UNCHANGED <<store, reqs, tipHeight, chainBalance, notifs, csvRuns, reads, fmt>>

Init ==
    /\ store = << >>
    /\ reqs = [r \in ReqIds |-> IdleReq]
    /\ tipHeight = SNAPSHOT_HEIGHT
    /\ chainBalance = [a \in X42Addrs |-> InitialBalance]
    /\ now = -1
    /\ notifs = << >>
    /\ csvRuns = {}
    /\ reads = NoReads
    /\ fmt = NoFormat

Next ==
    \/ \E r \in ReqIds : Receive(r)
    \/ \E r \in ReqIds : TipReply(r)
    \/ \E r \in ReqIds : FindReply(r)
    \/ \E r \in ReqIds : BalanceReply(r)
    \/ \E r \in ReqIds : VerifyReply(r)
    \/ \E r \in ReqIds : CreateReply(r)
    \/ \E r \in ReqIds : NotifyReply(r)
    \/ ChainAdvance
    \/ Tick

Spec == Init /\ [][Next]_vars

-----------------------------------------------------------------------------
(* The redistribution over every claim set within the bounds.              *)

\* the row a verified claim of source address i leaves in the table
ClaimRow(i, epix, balance) ==
    LET body == [x42_address |-> i, epix_address |-> epix,
                 snapshot_balance |-> balance]
    IN  [raw_json         |-> body,
         signature        |-> Sign(i, JSONstringify(body)),
         x42_address      |-> i,
         epix_address     |-> epix,
         snapshot_balance |-> balance]

\* the tables of at most MaxClaims rows, one per source address
ClaimSets ==
    UNION {{[i \in 1..n |-> ClaimRow(i, f[i][1], f[i][2])] :
                f \in [1..n -> EpixAddrs \X Balances]} : n \in 0..MaxClaims}

RedistInit ==
    /\ store \in ClaimSets
    /\ reqs = [r \in ReqIds |-> IdleReq]
    /\ tipHeight = SNAPSHOT_HEIGHT
    /\ chainBalance = [a \in X42Addrs |-> InitialBalance]
    /\ now = -1
    /\ notifs = << >>
    /\ csvRuns = {}
    /\ reads = NoReads
    /\ fmt = NoFormat

RedistNext == \E detailed \in BOOLEAN : DownloadCsv(detailed)

RedistSpec == RedistInit /\ [][RedistNext]_vars

-----------------------------------------------------------------------------
(* The redistribution over claim sets in which one address holds more than *)
(* the target and another holds next to nothing.                           *)

\* the balances of these claims: nothing, one satoshi, half a coin, and
\* 15,000,000 coins
CapBalances ==
    {Zero, BigInt(1), BigInt(50000000), BigMul(BigInt(15000000), BigInt(SATS))}

\* the tables of at most MaxClaims rows with these balances
CapClaimSets ==
    UNION {{[i \in 1..n |-> ClaimRow(i, f[i][1], f[i][2])] :
                f \in [1..n -> EpixAddrs \X CapBalances]} : n \in 0..MaxClaims}

CapInit ==
    /\ store \in CapClaimSets
    /\ reqs = [r \in ReqIds |-> IdleReq]
    /\ tipHeight = SNAPSHOT_HEIGHT
    /\ chainBalance = [a \in X42Addrs |-> InitialBalance]
    /\ now = -1
    /\ notifs = << >>
    /\ csvRuns = {}
    /\ reads = NoReads
    /\ fmt = NoFormat

CapSpec == CapInit /\ [][RedistNext]_vars

-----------------------------------------------------------------------------
(* The formatting helpers over their inputs within the bounds.             *)

FormatInit ==
    /\ store = << >>
    /\ reqs = [r \in ReqIds |-> IdleReq]
    /\ tipHeight = SNAPSHOT_HEIGHT
    /\ chainBalance = [a \in X42Addrs |-> InitialBalance]
    /\ now = -1
    /\ notifs = << >>
    /\ csvRuns = {}
    /\ reads = NoReads
    /\ fmt = NoFormat

FormatNext ==
    \/ EscapeField
    \/ DeductionPercentage
    \/ FinalBalanceStr

FormatSpec == FormatInit /\ [][FormatNext]_vars

-----------------------------------------------------------------------------
(* One submission against every behaviour of the chain node, the clock and *)
(* the table, which is empty or holds the claim of an earlier submission.  *)

\* the tables an earlier submission may have left
EarlierClaims ==
    {<< >>} \cup {<<ClaimRow(a, e, InitialBalance)>> : a \in X42Addrs, e \in EpixAddrs}

\* the submission that is followed
TheSubmission == CHOOSE r \in ReqIds : \A q \in ReqIds : r <= q

SubmitInit ==
    /\ store \in EarlierClaims
    /\ reqs = [r \in ReqIds |-> IdleReq]
    /\ tipHeight \in InitialTips
    /\ chainBalance = [a \in X42Addrs |-> InitialBalance]
    /\ now = -1
    /\ notifs = << >>
    /\ csvRuns = {}
    /\ reads = NoReads
    /\ fmt = NoFormat

SubmitNext ==
    \/ Receive(TheSubmission)
    \/ TipReply(TheSubmission)
    \/ FindReply(TheSubmission)
    \/ BalanceReply(TheSubmission)
    \/ VerifyReply(TheSubmission)
    \/ CreateReply(TheSubmission)
    \/ NotifyReply(TheSubmission)
    \/ ChainAdvance
    \/ Tick

SubmitSpec == SubmitInit /\ [][SubmitNext]_vars

-----------------------------------------------------------------------------
(* One submission, with a chain node that may leave a call unanswered.  The *)
(* calls are made by axios.get and axios.post without a timeout option, so  *)
(* the promise of a call the node never answers stays pending and the       *)
(* handler never runs on.                                                   *)

\* the awaits of the handler on a call to the chain node
ChainAwaits == {"tip", "balance", "verify"}

\* The node never answers the call the request is waiting for
NodeSilent(r) ==
    /\ reqs[r].pc \in ChainAwaits
    /\ reqs' = [reqs EXCEPT ![r].pc = "pending",
                            ![r].seen.tipReply =
                                IF reqs[r].pc = "tip" THEN "silent" ELSE @,
                            ![r].seen.balanceReply =
                                IF reqs[r].pc = "balance" THEN "silent" ELSE @,
                            ![r].seen.verifyReply =
                                IF reqs[r].pc = "verify" THEN "silent" ELSE @]
    /\ UNCHANGED <<store, tipHeight, chainBalance, now, notifs, csvRuns, reads, fmt>>

\* a step of the handler of a submission: the event loop runs the handler on
\* whenever the promise it awaits is settled
SubmissionStep(r) ==
    \/ Receive(r)
    \/ TipReply(r)
    \/ FindReply(r)
    \/ BalanceReply(r)
    \/ VerifyReply(r)
    \/ CreateReply(r)
    \/ NotifyReply(r)
    \/ NodeSilent(r)

LiveNext ==
    \/ SubmissionStep(TheSubmission)
    \/ ChainAdvance
    \/ Tick

LiveSpec ==
    /\ SubmitInit
    /\ [][LiveNext]_vars
    /\ WF_vars(SubmissionStep(TheSubmission))

-----------------------------------------------------------------------------
(* The table and its readers: submissions that have passed every check and *)
(* are about to insert, interleaved with the handlers that read.           *)

\* a submission of the body, signed by its source address, whose checks have
\* all passed and whose Snapshot.create is pending
AboutToCreate(body) ==
    [pc |-> "create", body |-> body,
     signature |-> Sign(body.x42_address, JSONstringify(body)),
     response |-> NoResponse, notif |-> "none",
     calls |-> <<"addressindexertip", "findOne", "getaddressesbalances",
                 "verifymessage", "create">>,
     seen |-> [NothingSeen EXCEPT
                  !.tipReply = "tipHeight", !.tipHeight = SNAPSHOT_HEIGHT,
                  !.clockRead = TRUE, !.now = -1, !.existing = "absent",
                  !.balanceReply = "balance", !.balance = body.snapshot_balance,
                  !.balanceTip = SNAPSHOT_HEIGHT,
                  !.verifyReply = "True"]]

\* the bodies of the pending submissions: the balance is the one on the
\* chain, and each source address claims for the destination of its number
PendingBodies ==
    {b \in Bodies : /\ b.snapshot_balance = InitialBalance
                    /\ b.epix_address = b.x42_address}

\* the pending submissions, numbered in the order of their source addresses
\* (any of them may commit first)
PendingReqs ==
    {f \in [ReqIds -> {AboutToCreate(body) : body \in PendingBodies}] :
        \A r \in ReqIds, q \in ReqIds :
            r < q => f[r].body.x42_address <= f[q].body.x42_address}

ApiInit ==
    /\ store = << >>
    /\ reqs \in PendingReqs
    /\ tipHeight = SNAPSHOT_HEIGHT
    /\ chainBalance = [a \in X42Addrs |-> InitialBalance]
    /\ now = -1
    /\ notifs = << >>
    /\ csvRuns = {}
    /\ reads = NoReads
    /\ fmt = NoFormat

ApiNext ==
    \/ \E r \in ReqIds : CreateReply(r)
    \/ \E detailed \in BOOLEAN : DownloadCsv(detailed)
    \/ CheckBalance
    \/ VerifyAddress
    \/ GetBlockheight
    \/ Claims
    \/ TotalSum
    \/ TotalCount

ApiSpec == ApiInit /\ [][ApiNext]_vars

\* the commits interleaved with the redistribution runs alone
ExportNext ==
    \/ \E r \in ReqIds : CreateReply(r)
    \/ \E detailed \in BOOLEAN : DownloadCsv(detailed)

ExportSpec == ApiInit /\ [][ExportNext]_vars

\* the commits interleaved with GET /total-claimed alone
TotalsNext ==
    \/ \E r \in ReqIds : CreateReply(r)
    \/ TotalSum
    \/ TotalCount

TotalsSpec == ApiInit /\ [][TotalsNext]_vars

-----------------------------------------------------------------------------
(* What the claims speak of, stated over the claim set a run has read.     *)

\* the runs that sent a CSV
OkRuns == {run \in csvRuns : run.status = 200}

\* the distinct destination addresses of a claim set
Dests(snapshots) == {snapshots[i].epix_address : i \in 1..Len(snapshots)}

\* the sum of the claimed balances of the rows in I
RECURSIVE SumBalances(_, _)
SumBalances(snapshots, I) ==
    IF I = {} THEN Zero
    ELSE LET i == CHOOSE j \in I : TRUE
         IN  BigAdd(snapshots[i].snapshot_balance, SumBalances(snapshots, I \ {i}))

\* originalBalance[d]: the sum of the claims that name destination d
OriginalBalance(snapshots, d) ==
    SumBalances(snapshots,
                {i \in 1..Len(snapshots) : snapshots[i].epix_address = d})

\* totalOriginalUnits
TotalOriginal(snapshots) == SumBalances(snapshots, 1..Len(snapshots))

\* the final balance a run emits, per destination
FinalPairs(run) ==
    {<<run.rows[j].epix_address, run.rows[j].finalBalance>> : j \in 1..Len(run.rows)}

FinalOf(run, d) == (CHOOSE p \in FinalPairs(run) : p[1] = d)[2]

\* the sum of the final balances of a set of pairs
RECURSIVE SumFinals(_)
SumFinals(P) ==
    IF P = {} THEN Zero
    ELSE LET p == CHOOSE x \in P : TRUE
         IN  BigAdd(p[2], SumFinals(P \ {p}))

\* the final balances of the destinations other than d
OtherFinals(run, d) == {p \in FinalPairs(run) : p[1] # d}

\* floor(originalBalance * multiplier / S)
Scaled(originalBalance, multiplier) ==
    BigDiv(BigMul(originalBalance, multiplier), BigInt(SATS))

\* floor(target * S / total)
FloorRatio(target, total) == BigDiv(BigMul(target, BigInt(SATS)), total)

\* the destination of the last row a run emits
LastDest(run) == run.rows[Len(run.rows)].epix_address

\* the greatest destination address of a claim set
MaxDest(snapshots) ==
    CHOOSE d \in Dests(snapshots) : \A e \in Dests(snapshots) : e <= d

OverTarget(snapshots) == BigGt(TotalOriginal(snapshots), TARGET_BALANCE_SATS)

-----------------------------------------------------------------------------
(* The claims about the redistribution, checked under RedistSpec.          *)

\* C3: for every non-empty claim set whose total original balance is greater
\* than 0, the final balances a run emits, summed over the distinct
\* destinations, equal TARGET_BALANCE_SATS exactly.
C3_SumIsTarget ==
    \A run \in OkRuns :
        (Len(run.snapshots) > 0 /\ BigGt(TotalOriginal(run.snapshots), Zero))
            => SumFinals(FinalPairs(run)) = TARGET_BALANCE_SATS

\* C3 witness: a run over two destinations whose total exceeds the target and
\* whose last destination got more than its scaled balance (the flooring of
\* the others left a remainder) and the sum is the target.
C3_Witness ==
    \E run \in OkRuns :
        /\ Cardinality(Dests(run.snapshots)) >= 2
        /\ OverTarget(run.snapshots)
        /\ FinalOf(run, LastDest(run))
               # Scaled(OriginalBalance(run.snapshots, LastDest(run)), run.multiplier)
        /\ SumFinals(FinalPairs(run)) = TARGET_BALANCE_SATS

\* C4 (as claimed): when the total of the original balances is at most the
\* target, the multiplier is 100000000 and every destination, the last one
\* included, gets its original balance.
C4_BelowTargetFinalIsOriginal ==
    \A run \in OkRuns :
        ~OverTarget(run.snapshots) =>
            /\ run.multiplier = BigInt(SATS)
            /\ \A d \in Dests(run.snapshots) :
                   FinalOf(run, d) = OriginalBalance(run.snapshots, d)

\* the example of C5: target 500,000,000, A = 300,000,000, B = 700,000,000
C5_Example ==
    LET entries    == <<<<1, BigInt(300000000)>>, <<2, BigInt(700000000)>>>>
        target     == BigInt(500000000)
        multiplier == multiplierBigInt(totalClaimedRaw(entries), target)
    IN  /\ multiplier = BigInt(50000000)
        /\ CompactRows(entries, 1, multiplier, target, Zero)
               = <<[epix_address |-> 1, finalBalance |-> BigInt(150000000)],
                   [epix_address |-> 2, finalBalance |-> BigInt(350000000)]>>
        /\ FinalPairs([rows |-> DetailedRows(entries,
                   <<<<1, <<ClaimRow(1, 1, BigInt(300000000))>>>>,
                     <<2, <<ClaimRow(2, 2, BigInt(700000000))>>>>>>,
                   1, multiplier, target, Zero)])
               = {<<1, BigInt(150000000)>>, <<2, BigInt(350000000)>>}

\* C5: when the total of the original balances exceeds the target, the
\* multiplier is floor(target * S / total), every destination but the last
\* one emitted gets floor(originalBalance * multiplier / S), and the last gets
\* the target minus the sum of the others; the example holds.
C5_ScaledAboveTarget ==
    /\ C5_Example
    /\ \A run \in OkRuns :
        OverTarget(run.snapshots) =>
            /\ run.multiplier
                   = FloorRatio(TARGET_BALANCE_SATS, TotalOriginal(run.snapshots))
            /\ \A d \in Dests(run.snapshots) \ {LastDest(run)} :
                   FinalOf(run, d)
                       = Scaled(OriginalBalance(run.snapshots, d), run.multiplier)
            /\ FinalOf(run, LastDest(run))
                   = BigSub(TARGET_BALANCE_SATS,
                            SumFinals(OtherFinals(run, LastDest(run))))

\* C5 witness: a run over two destinations whose total exceeds the target and
\* is no multiple of it, so that the quotient of the multiplier is floored.
C5_Witness ==
    \E run \in OkRuns :
        /\ Cardinality(Dests(run.snapshots)) >= 2
        /\ OverTarget(run.snapshots)
        /\ BigMul(run.multiplier, TotalOriginal(run.snapshots))
               # BigMul(TARGET_BALANCE_SATS, BigInt(SATS))

\* C6 (as claimed): the destination that takes the remainder is the last in
\* ascending address order: every other destination gets its scaled balance,
\* and the last row emitted is the one of the greatest address.
C6_RemainderToGreatestAddress ==
    \A run \in OkRuns :
        Len(run.snapshots) > 0 =>
            /\ LastDest(run) = MaxDest(run.snapshots)
            /\ \A d \in Dests(run.snapshots) \ {MaxDest(run.snapshots)} :
                   FinalOf(run, d)
                       = Scaled(OriginalBalance(run.snapshots, d), run.multiplier)

\* C7: two runs that read the same claim set emit the same final balance for
\* every destination, with the same multiplier, and give the remainder to the
\* same destination.
C7_Deterministic ==
    \A r1 \in OkRuns, r2 \in OkRuns :
        r1.snapshots = r2.snapshots =>
            /\ FinalPairs(r1) = FinalPairs(r2)
            /\ r1.multiplier = r2.multiplier
            /\ Len(r1.snapshots) > 0 => LastDest(r1) = LastDest(r2)

\* C7 witness: two distinct runs over one claim set of two destinations whose
\* total exceeds the target.
C7_Witness ==
    \E r1 \in OkRuns, r2 \in OkRuns :
        /\ r1 # r2
        /\ r1.snapshots = r2.snapshots
        /\ Cardinality(Dests(r1.snapshots)) >= 2
        /\ OverTarget(r1.snapshots)

\* C8 (as claimed): over a non-empty claim set whose balances are all 0 the
\* run succeeds with the multiplier 100000000 and every final balance is 0.
C8_AllZeroStaysZero ==
    \A run \in csvRuns :
        (/\ Len(run.snapshots) > 0
         /\ \A i \in 1..Len(run.snapshots) : run.snapshots[i].snapshot_balance = Zero)
            => /\ run.status = 200
               /\ run.multiplier = BigInt(SATS)
               /\ \A d \in Dests(run.snapshots) : FinalOf(run, d) = Zero

\* what is left of the target for the last destination of a run
Remaining(run) ==
    BigSub(TARGET_BALANCE_SATS, SumFinals(OtherFinals(run, LastDest(run))))

\* C9: no final balance is negative; when the target minus the sum of the
\* other destinations' final balances is not positive, the last destination
\* gets floor(originalBalance * multiplier / S).
C9_NoNegativeFinal ==
    \A run \in OkRuns :
        /\ \A p \in FinalPairs(run) : ~p[2].neg
        /\ (Len(run.snapshots) > 0 /\ ~BigGt(Remaining(run), Zero))
               => FinalOf(run, LastDest(run))
                      = Scaled(OriginalBalance(run.snapshots, LastDest(run)),
                               run.multiplier)

\* C9 witness: a run over two destinations where nothing is left of the target
\* for the last one.
C9_Witness ==
    \E run \in OkRuns :
        /\ Cardinality(Dests(run.snapshots)) >= 2
        /\ ~BigGt(Remaining(run), Zero)
        /\ ~FinalOf(run, LastDest(run)).neg

\* C10: a run groups the claims by destination: one entry, and in the compact
\* export one row, per distinct destination, and the original balance of an
\* entry is the sum of the claimed balances of the claims naming it.
C10_GroupedByDestination ==
    \A run \in OkRuns :
        /\ Len(run.entries) = Cardinality(Dests(run.snapshots))
        /\ \A j \in 1..Len(run.entries) :
               /\ run.entries[j][1] \in Dests(run.snapshots)
               /\ run.entries[j][2]
                      = OriginalBalance(run.snapshots, run.entries[j][1])
        /\ ~run.detailed =>
               /\ Len(run.rows) = Len(run.entries)
               /\ \A j \in 1..Len(run.rows) :
                      run.rows[j].epix_address = run.entries[j][1]
        /\ \A d \in Dests(run.snapshots) :
               \E j \in 1..Len(run.entries) : run.entries[j][1] = d

\* C10 witness: a compact run over two claims of non-zero balance that name
\* one destination.
C10_Witness ==
    \E run \in OkRuns :
        /\ ~run.detailed
        /\ Len(run.snapshots) = 2
        /\ Cardinality(Dests(run.snapshots)) = 1
        /\ \A i \in 1..2 : run.snapshots[i].snapshot_balance # Zero
        /\ Len(run.rows) = 1

-----------------------------------------------------------------------------
(* The claims about the submissions, checked under Spec.                   *)

Succeeded(r) == reqs[r].pc = "done" /\ reqs[r].response.status = 200

RejectedAsDuplicate(r) ==
    /\ reqs[r].pc = "done"
    /\ reqs[r].response = Respond(400, "Duplicate address. Snapshot was already verified.")

\* C1 (as claimed): in every reachable state the table holds at most one row
\* per source address (x42_address).
C1_OneClaimPerSource ==
    \A i \in 1..Len(store), j \in 1..Len(store) :
        i # j => store[i].x42_address # store[j].x42_address

\* C2 (as claimed): of two submissions that name the same source address and
\* fail no other check, exactly one succeeds and the other is rejected as a
\* duplicate, in every interleaving.
C2_SecondIsDuplicate ==
    \A r1 \in ReqIds, r2 \in ReqIds :
        (/\ r1 # r2
         /\ reqs[r1].body.x42_address = reqs[r2].body.x42_address
         /\ Succeeded(r1) \/ RejectedAsDuplicate(r1)
         /\ Succeeded(r2) \/ RejectedAsDuplicate(r2))
            => (Succeeded(r1) /\ RejectedAsDuplicate(r2))
                   \/ (Succeeded(r2) /\ RejectedAsDuplicate(r1))

-----------------------------------------------------------------------------
(* The claims about the checks of a submission, checked under Spec.        *)

Done(r) == reqs[r].pc = "done"

\* the request has inserted a row, or had a notification dispatched for one
StoredClaim(r) ==
    \/ reqs[r].seen.inserted # 0
    \/ \E n \in 1..Len(notifs) : notifs[n].req = r

\* C11: a signed submission that observes a tip height other than 3,000,000
\* ends with 400 and the wrong-block-height reason, whatever the height and
\* the other inputs are, and stores no claim.
C11_WrongHeightRejected ==
    \A r \in ReqIds :
        (/\ reqs[r].signature # NoSignature
         /\ reqs[r].seen.tipReply = "tipHeight"
         /\ reqs[r].seen.tipHeight # SNAPSHOT_HEIGHT)
            => /\ Done(r)
               /\ reqs[r].response
                      = Respond(400, "Block height must be at 3,000,000 blocks")
               /\ ~StoredClaim(r)

\* a call of the request to the chain node failed: a rejection (timeout,
\* non-success status) or a malformed reply
ChainFailure(r) ==
    \/ reqs[r].seen.tipReply \in {"error", "malformed"}
    \/ reqs[r].seen.balanceReply \in {"error", "malformed"}
    \/ reqs[r].seen.verifyReply \in {"error", "malformed"}

\* a check of the request failed on well-formed replies
ValidationFailure(r) ==
    \/ reqs[r].signature = NoSignature
    \/ reqs[r].seen.tipReply = "tipHeight" /\ reqs[r].seen.tipHeight # SNAPSHOT_HEIGHT
    \/ reqs[r].seen.clockRead /\ reqs[r].seen.now > 0
    \/ reqs[r].seen.existing = "found"
    \/ reqs[r].seen.balanceReply = "balance"
           /\ reqs[r].seen.balance # reqs[r].body.snapshot_balance
    \/ reqs[r].seen.verifyReply = "False"

\* C12 (as claimed): a submission that met a chain-communication failure ends
\* with 500 and never with 400; one that failed a validation ends with 400 and
\* never with 500.
C12_FaultsAreErrors ==
    \A r \in ReqIds :
        Done(r) =>
            /\ ChainFailure(r) => reqs[r].response.status = 500
            /\ ValidationFailure(r) => reqs[r].response.status = 400

\* the calls of a submission, in the order of the steps
CallOrder ==
    <<"addressindexertip", "findOne", "getaddressesbalances", "verifymessage",
      "create", "sendSnapshotVerificationNotification">>

IsPrefix(s, t) == Len(s) <= Len(t) /\ s = SubSeq(t, 1, Len(s))

\* the outcome of the first step that fails, in the order missing signature,
\* snapshot height, claim deadline, duplicate, balance, signature
\* verification, commit, and the number of calls made up to that step
FirstFailure(r) ==
    LET q == reqs[r]
        Outcome(n, status, text) == [calls |-> n, response |-> Respond(status, text)]
    IN  IF q.signature = NoSignature
        THEN Outcome(0, 400, "Signature is required")
        ELSE IF q.seen.tipReply = "error"
        THEN Outcome(1, 500, "Internal server error")
        ELSE IF q.seen.tipReply = "malformed" \/ NoTipHeight(q.seen.tipHeight)
        THEN Outcome(1, 400, "Unable to retrieve block height")
        ELSE IF q.seen.tipHeight # SNAPSHOT_HEIGHT
        THEN Outcome(1, 400, "Block height must be at 3,000,000 blocks")
        ELSE IF q.seen.clockRead /\ q.seen.now > 0
        THEN Outcome(1, 400,
                 "Claim period has ended. The deadline was June 6th, 2025 at 00:00:00 UTC")
        ELSE IF q.seen.existing = "error"
        THEN Outcome(2, 500, "Internal server error")
        ELSE IF q.seen.existing = "found"
        THEN Outcome(2, 400, "Duplicate address. Snapshot was already verified.")
        ELSE IF q.seen.balanceReply \in {"error", "malformed"}
        THEN Outcome(3, 500, "Internal server error")
        ELSE IF q.seen.balance # q.body.snapshot_balance
        THEN Outcome(3, 400, "Balance verification failed")
        ELSE IF q.seen.verifyReply = "error"
        THEN Outcome(4, 500, "Internal server error")
        ELSE IF q.seen.verifyReply # "True"
        THEN Outcome(4, 400, "Signature verification failed")
        ELSE IF q.seen.inserted = 0
        THEN Outcome(5, 500, "Internal server error")
        ELSE Outcome(6, 200, "Snapshot verified and stored successfully")

\* C13: the calls of a submission follow the order tip height, duplicate
\* lookup, balance, signature verification, insert, notification (the deadline
\* is checked between the first two); a finished submission has the outcome
\* and reason of the first step that failed and has made no call after it.
C13_FirstFailureDecides ==
    \A r \in ReqIds :
        /\ IsPrefix(reqs[r].calls, CallOrder)
        /\ Done(r) =>
               /\ reqs[r].response = FirstFailure(r).response
               /\ Len(reqs[r].calls) = FirstFailure(r).calls
               /\ StoredClaim(r) => FirstFailure(r).calls = Len(CallOrder)

\* C13 witness: a submission that passed the height, deadline, duplicate and
\* balance checks has failed the signature verification and made four calls.
C13_Witness ==
    \E r \in ReqIds :
        /\ Done(r)
        /\ reqs[r].calls = SubSeq(CallOrder, 1, 4)
        /\ reqs[r].seen.verifyReply = "False"
        /\ reqs[r].response = Respond(400, "Signature verification failed")

\* C14: every row of the table was inserted by a submission that had observed
\* the tip at the snapshot height, found no row for the source address, read a
\* chain balance equal to the claimed balance and received "True" from the
\* signature verification; a submission answers 200 only with its row inserted.
C14_StoredClaimsWereVerified ==
    /\ \A i \in 1..Len(store) :
           \E r \in ReqIds :
               /\ reqs[r].seen.inserted = i
               /\ store[i] = NewSnapshot(r)
               /\ reqs[r].seen.tipReply = "tipHeight"
               /\ reqs[r].seen.tipHeight = SNAPSHOT_HEIGHT
               /\ reqs[r].seen.existing = "absent"
               /\ reqs[r].seen.balanceReply = "balance"
               /\ reqs[r].seen.balance = store[i].snapshot_balance
               /\ reqs[r].seen.verifyReply = "True"
    /\ \A r \in ReqIds :
           Succeeded(r) =>
               /\ reqs[r].seen.inserted \in 1..Len(store)
               /\ store[reqs[r].seen.inserted] = NewSnapshot(r)

\* C14 witness: the table holds the rows of two submissions, both answered 200.
C14_Witness ==
    /\ Len(store) = 2
    /\ \E r1 \in ReqIds, r2 \in ReqIds :
           /\ Succeeded(r1) /\ reqs[r1].seen.inserted = 1
           /\ Succeeded(r2) /\ reqs[r2].seen.inserted = 2

\* C15: a submission whose claimed balance differs from the balance the chain
\* node returned for its source address ends with 400 and the balance reason
\* and stores no claim; the signature verification is asked for only after a
\* balance equal to the claimed one was read.
C15_BalanceMismatchRejected ==
    \A r \in ReqIds :
        /\ (/\ reqs[r].seen.balanceReply = "balance"
            /\ reqs[r].seen.balance # reqs[r].body.snapshot_balance)
               => /\ Done(r)
                  /\ reqs[r].response = Respond(400, "Balance verification failed")
                  /\ ~StoredClaim(r)
        /\ (\E n \in 1..Len(reqs[r].calls) : reqs[r].calls[n] = "verifymessage")
               => /\ reqs[r].seen.balanceReply = "balance"
                  /\ reqs[r].seen.balance = reqs[r].body.snapshot_balance

\* C15 witness: a submission signed by its source address, at the snapshot
\* height and before the deadline, claimed less than the chain balance read.
C15_Witness ==
    \E r \in ReqIds :
        /\ reqs[r].signature = Sign(reqs[r].body.x42_address, JSONstringify(reqs[r].body))
        /\ reqs[r].seen.balanceReply = "balance"
        /\ BigGt(reqs[r].seen.balance, reqs[r].body.snapshot_balance)
        /\ Done(r)

\* C16: a submission for which the signature verification returned anything
\* other than "True" ends with 400 and the signature-verification-failed
\* reason and stores no claim.
C16_NotAffirmativeRejected ==
    \A r \in ReqIds :
        reqs[r].seen.verifyReply \in {"False", "malformed"}
            => /\ Done(r)
               /\ reqs[r].response = Respond(400, "Signature verification failed")
               /\ ~StoredClaim(r)

\* C16 witness: a submission signed by another address than its source got
\* "False" from the verification and was answered.
C16_Witness ==
    \E r \in ReqIds :
        /\ Done(r)
        /\ reqs[r].seen.verifyReply = "False"
        /\ reqs[r].signature.signer # reqs[r].body.x42_address
        /\ reqs[r].response = Respond(400, "Signature verification failed")

Called(r, call) == \E n \in 1..Len(reqs[r].calls) : reqs[r].calls[n] = call

ClaimPeriodEnded ==
    Respond(400, "Claim period has ended. The deadline was June 6th, 2025 at 00:00:00 UTC")

\* C17: a signed submission that observed the tip at the snapshot height reads
\* the clock; it ends with 400 and the claim-period-ended reason if and only
\* if the time read is strictly after the deadline, and with a time at or
\* before the deadline it goes on to the duplicate lookup.
C17_RejectedIffAfterDeadline ==
    \A r \in ReqIds :
        /\ reqs[r].seen.clockRead
               <=> /\ reqs[r].seen.tipReply = "tipHeight"
                   /\ reqs[r].seen.tipHeight = SNAPSHOT_HEIGHT
        /\ reqs[r].seen.clockRead =>
               /\ reqs[r].seen.now > 0 <=> reqs[r].response = ClaimPeriodEnded
               /\ reqs[r].seen.now > 0 => Done(r) /\ ~Called(r, "findOne")
               /\ reqs[r].seen.now <= 0 => Called(r, "findOne")
        /\ reqs[r].response = ClaimPeriodEnded => reqs[r].seen.clockRead

\* C17 witness: a submission read the clock at the deadline instant and went
\* on to the duplicate lookup; the deadline has passed since.
C17_Witness ==
    \E r \in ReqIds :
        /\ reqs[r].seen.clockRead
        /\ reqs[r].seen.now = 0
        /\ Called(r, "findOne")
        /\ now > 0

\* C18: a request without a signature header ends with 400 and the
\* signature-required reason, having made no call to the chain node, no read
\* of the table and no insert.
C18_UnsignedRejectedAtOnce ==
    \A r \in ReqIds :
        (reqs[r].pc # "idle" /\ reqs[r].signature = NoSignature)
            => /\ Done(r)
               /\ reqs[r].response = Respond(400, "Signature is required")
               /\ reqs[r].calls = << >>
               /\ reqs[r].seen = NothingSeen
               /\ ~StoredClaim(r)

\* C18 witness: an unsigned request that the height, deadline, duplicate and
\* balance checks would let through has been answered.
C18_Witness ==
    \E r \in ReqIds :
        /\ Done(r)
        /\ reqs[r].signature = NoSignature
        /\ tipHeight = SNAPSHOT_HEIGHT
        /\ now <= 0
        /\ chainBalance[reqs[r].body.x42_address] = reqs[r].body.snapshot_balance
        /\ ~findOne(reqs[r].body.x42_address)

\* the columns of a row of the table
Columns == {"raw_json", "signature", "x42_address", "epix_address", "snapshot_balance"}

\* C19: the step that ends a submission with 400 or 500 leaves the table as
\* it was, so the table holds exactly the rows of the submissions answered
\* 200; every row has all five columns, filled from its submission.
C19_NoPartialCommit ==
    /\ [][\A r \in ReqIds :
            (~Done(r) /\ reqs'[r].pc = "done" /\ reqs'[r].response.status # 200)
                => store' = store]_vars
    /\ [](/\ \A r \in ReqIds : (Done(r) /\ ~Succeeded(r)) => reqs[r].seen.inserted = 0
          /\ Len(store) = Cardinality({r \in ReqIds : Succeeded(r)})
          /\ \A i \in 1..Len(store) :
                 /\ DOMAIN store[i] = Columns
                 /\ \E r \in ReqIds : Succeeded(r) /\ store[i] = NewSnapshot(r))

\* C19 witness: a submission ended with 500 at the insert while the table
\* holds the row of the other submission.
C19_Witness ==
    \E r \in ReqIds :
        /\ Done(r)
        /\ reqs[r].response.status = 500
        /\ Called(r, "create")
        /\ Len(store) = 1

-----------------------------------------------------------------------------
(* The claims about the notification, checked under SubmitSpec.            *)

Success == Respond(200, "Snapshot verified and stored successfully")

\* the row the request inserted is in the table
RowStored(r) ==
    /\ reqs[r].seen.inserted \in 1..Len(store)
    /\ store[reqs[r].seen.inserted] = NewSnapshot(r)

\* C21: the step that commits a claim dispatches the notification and sends
\* 200 without waiting for it; while the notification is pending, and after it
\* has succeeded or failed, the response is still that 200 and the row is
\* still in the table; no step changes a response once sent.
C21_NotificationNeverAlters ==
    /\ [][\A r \in ReqIds :
            /\ (reqs[r].notif = "none" /\ reqs'[r].notif # "none")
                   => reqs'[r].notif = "dispatched" /\ reqs'[r].response = Success
            /\ Done(r) => reqs'[r].response = reqs[r].response]_vars
    /\ [](\A r \in ReqIds :
            /\ reqs[r].notif # "none" =>
                   /\ Done(r)
                   /\ reqs[r].response = Success
                   /\ RowStored(r)
            /\ Succeeded(r) => reqs[r].notif # "none" /\ RowStored(r))

\* C21 witness: the notification of a committed submission has failed.
C21_Witness ==
    \E r \in ReqIds :
        /\ reqs[r].notif = "false"
        /\ reqs[r].response = Success
        /\ RowStored(r)

\* the notifications dispatched for a request
NotificationsOf(r) == {n \in 1..Len(notifs) : notifs[n].req = r}

\* C22: exactly one notification is dispatched for a submission that has
\* inserted its row and none for any other; a notification exists only with
\* the row in the table, and never for a submission answered 400 or 500.
C22_NotifiedOncePerCommit ==
    /\ \A n \in 1..Len(notifs) : notifs[n].req \in ReqIds
    /\ \A r \in ReqIds :
           /\ Cardinality(NotificationsOf(r))
                  = IF reqs[r].seen.inserted # 0 THEN 1 ELSE 0
           /\ NotificationsOf(r) # {} => RowStored(r) /\ Succeeded(r)
           /\ (Done(r) /\ ~Succeeded(r)) => NotificationsOf(r) = {}
           /\ Called(r, "sendSnapshotVerificationNotification")
                  <=> NotificationsOf(r) # {}

\* C22 witness: a submission has committed, its one notification was sent, and
\* the table holds the row of an earlier submission as well.
C22_Witness ==
    \E r \in ReqIds :
        /\ Succeeded(r)
        /\ reqs[r].notif = "true"
        /\ Cardinality(NotificationsOf(r)) = 1
        /\ Len(notifs) = 1
        /\ Len(store) = 2

\* the number a string of digits denotes, as a magnitude
RECURSIVE CharsToMag(_)
CharsToMag(chars) ==
    IF chars = << >> THEN << >>
    ELSE LET d == CHOOSE k \in 0..9 : DigitChars[k + 1] = chars[Len(chars)]
         IN  <<d>> \o CharsToMag(SubSeq(chars, 1, Len(chars) - 1))

\* the satoshis an amount "W.FFFFFFFF x42" denotes: W * 10^8 + F
AmountSats(amount) ==
    LET number == SubSeq(amount, 1, Len(amount) - 4)
        point  == CHOOSE i \in 1..Len(number) : number[i] = "."
        whole  == SubSeq(number, 1, point - 1)
        frac   == SubSeq(number, point + 1, Len(number))
    IN  BigAdd(BigMul(Big(FALSE, Norm(CharsToMag(whole))), BigInt(SATS)),
               Big(FALSE, Norm(CharsToMag(frac))))

\* the row whose commit the notification n was dispatched for
RowNotified(n) == store[reqs[notifs[n].req].seen.inserted]

\* C23 (as claimed): every notification carries the destination address and
\* the claimed balance of the claim whose commit it was dispatched for.
C23_CarriesDestination ==
    \A n \in 1..Len(notifs) :
        /\ notifs[n].message.x42Address = RowNotified(n).epix_address
        /\ AmountSats(notifs[n].message.Amount) = RowNotified(n).snapshot_balance

\* C23 (amended): every notification carries the source (x42) address and, as
\* a coin amount of 8 decimals, the claimed balance of the claim whose commit
\* it was dispatched for.
C23_CarriesSource ==
    \A n \in 1..Len(notifs) :
        /\ notifs[n].x42Address = RowNotified(n).x42_address
        /\ notifs[n].snapshotBalance = RowNotified(n).snapshot_balance
        /\ notifs[n].message.x42Address = RowNotified(n).x42_address
        /\ AmountSats(notifs[n].message.Amount) = RowNotified(n).snapshot_balance
        /\ Len(notifs[n].message.Amount) >= AMOUNT_DECIMALS + 6
        /\ notifs[n].message.Amount[Len(notifs[n].message.Amount) - AMOUNT_DECIMALS - 4] = "."

\* C23 witness: a notification was dispatched for a claim whose destination
\* address differs from its source address.
C23_Witness ==
    \E n \in 1..Len(notifs) :
        /\ RowNotified(n).x42_address # RowNotified(n).epix_address
        /\ notifs[n].message.x42Address = RowNotified(n).x42_address
        /\ AmountSats(notifs[n].message.Amount) = InitialBalance
        /\ RowNotified(n).snapshot_balance = InitialBalance

-----------------------------------------------------------------------------
(* The claim about termination, checked under LiveSpec.                    *)

\* C24 (as claimed): every submission received eventually ends with a
\* response, also when a call to the chain node is never answered.
C24_EverySubmissionTerminates ==
    \A r \in ReqIds : (reqs[r].pc # "idle") ~> Done(r)

-----------------------------------------------------------------------------
(* The claims about the table and its readers, checked under ApiSpec.      *)

\* C20: a row of the table stays, with the same values, in every later state;
\* the table changes only by the insert of a submission at its commit step,
\* and no step of a reading handler (/download-csv, /claims, /total-claimed,
\* /check-balance, /verify-address, /get-blockheight) changes it.
C20_StoredClaimsStay ==
    [][/\ \A i \in 1..Len(store) : i <= Len(store') /\ store'[i] = store[i]
       /\ store' # store =>
              \E r \in ReqIds :
                  /\ reqs[r].pc = "create"
                  /\ reqs'[r].pc = "done"
                  /\ store' = Append(store, NewSnapshot(r))
       /\ (reads' # reads \/ csvRuns' # csvRuns) => store' = store]_vars

\* C20 witness: the table holds the rows of two source addresses;
\* /download-csv read it between the two inserts and /claims listed both rows
\* afterwards.
C20_Witness ==
    /\ Len(store) = 2
    /\ store[1].x42_address # store[2].x42_address
    /\ \E run \in csvRuns : run.status = 200 /\ run.snapshots = <<store[1]>>
    /\ reads.last.op = "claims"
    /\ Len(reads.last.data.rows) = 2

-----------------------------------------------------------------------------
(* The claim about a redistribution run concurrent with commits, checked   *)
(* under ExportSpec.                                                       *)

\* C25: the rows a run computes from are the table as it was at the step of
\* its one Snapshot.findAll: the run that is added in a step has read exactly
\* the table of that step, and afterwards the rows every run has read are a
\* prefix, in id order, of the table, in which every committed row is either
\* wholly present or absent.
C25_RunReadsOneInstant ==
    /\ [][\A run \in csvRuns' \ csvRuns :
            run.status = 200 => run.snapshots = store /\ store' = store]_vars
    /\ [](\A run \in OkRuns :
            /\ IsPrefix(run.snapshots, store)
            /\ \A i \in 1..Len(store) :
                   \/ i <= Len(run.snapshots) /\ run.snapshots[i] = store[i]
                   \/ i > Len(run.snapshots))

\* C25 witness: one run read the table between the commits of two claims of
\* different source addresses, another after both.
C25_Witness ==
    /\ Len(store) = 2
    /\ store[1].x42_address # store[2].x42_address
    /\ \E run1 \in OkRuns, run2 \in OkRuns :
           /\ run1.snapshots = <<store[1]>>
           /\ run2.snapshots = store

-----------------------------------------------------------------------------
(* The claims about the source address and the payload of a submission,    *)
(* checked under SubmitSpec.                                               *)

\* C26 (as claimed): the first call of a submission asks the chain node to
\* validate the source address (api/Node/validateaddress, as GET
\* /verify-address does), before the tip height is asked for, and a submission
\* reaches 200 and stores a claim only with that validation made.
C26_AddressValidatedFirst ==
    \A r \in ReqIds :
        /\ reqs[r].calls # << >> => reqs[r].calls[1] = "validateaddress"
        /\ (Succeeded(r) \/ StoredClaim(r)) => Called(r, "validateaddress")

\* C27: every row of the table holds the body of its submission as raw_json
\* and its signature header as signature; its x42_address, epix_address and
\* snapshot_balance are the fields of that body; and its signature is one the
\* node verifies for the row's own source address over the serialization of
\* that body.
C27_StoredAsSubmitted ==
    \A i \in 1..Len(store) :
        /\ store[i].x42_address = store[i].raw_json.x42_address
        /\ store[i].epix_address = store[i].raw_json.epix_address
        /\ store[i].snapshot_balance = store[i].raw_json.snapshot_balance
        /\ VerifyMessage(store[i].signature, store[i].x42_address,
                         JSONstringify(store[i].raw_json)) = "True"
        /\ \A r \in ReqIds :
               reqs[r].seen.inserted = i =>
                   /\ store[i].raw_json = reqs[r].body
                   /\ store[i].signature = reqs[r].signature
                   /\ reqs[r].seen.verifyReply = "True"

\* C27 witness: a submission whose destination address differs from its
\* source address has committed its row after the row of an earlier claim.
C27_Witness ==
    \E r \in ReqIds :
        /\ reqs[r].seen.inserted = 2
        /\ Len(store) = 2
        /\ store[2].raw_json = reqs[r].body
        /\ store[2].x42_address # store[2].epix_address

-----------------------------------------------------------------------------
(* The claim about the detailed export, checked under RedistSpec.          *)

\* the detailed runs that sent a CSV
DetailedRuns == {run \in OkRuns : run.detailed}

\* the rows of a run that carry the claim i of the set it read
RowsOfClaim(run, i) ==
    {j \in 1..Len(run.rows) :
        /\ run.rows[j].epix_address = run.snapshots[i].epix_address
        /\ run.rows[j].x42_address = run.snapshots[i].x42_address
        /\ run.rows[j].original_balance = run.snapshots[i].snapshot_balance
        /\ run.rows[j].signature = run.snapshots[i].signature
        /\ run.rows[j].raw_json = run.snapshots[i].raw_json}

\* C29: a detailed run emits as many rows as the claim set has claims, one
\* for each claim with that claim's destination, source address, claimed
\* balance, signature and raw payload; rows of the same destination carry the
\* same final balance, which is the one the compact export gives that
\* destination.
C29_OneRowPerClaim ==
    \A run \in DetailedRuns :
        /\ Len(run.rows) = Len(run.snapshots)
        /\ \A i \in 1..Len(run.snapshots) : Cardinality(RowsOfClaim(run, i)) = 1
        /\ \A j \in 1..Len(run.rows), k \in 1..Len(run.rows) :
               run.rows[j].epix_address = run.rows[k].epix_address
                   => run.rows[j].finalBalance = run.rows[k].finalBalance
        /\ \A j \in 1..Len(run.rows) :
               run.rows[j].finalBalance
                   = FinalOf(CsvResponse(run.snapshots, FALSE),
                             run.rows[j].epix_address)

\* C29 witness: a detailed run over two claims of different source addresses
\* and balances that name one destination.
C29_Witness ==
    \E run \in DetailedRuns :
        /\ Len(run.snapshots) = 2
        /\ Cardinality(Dests(run.snapshots)) = 1
        /\ run.snapshots[1].snapshot_balance # run.snapshots[2].snapshot_balance
        /\ Len(run.rows) = 2
        /\ run.rows[1].x42_address # run.rows[2].x42_address
        /\ run.rows[1].finalBalance = run.rows[2].finalBalance

-----------------------------------------------------------------------------
(* The claims about the formatting helpers, checked under FormatSpec.      *)

\* the characters that make a CSV field need quoting
NeedsQuoting(chars) ==
    \E i \in 1..Len(chars) : chars[i] \in {",", "\"", "\n", "\r"}

\* the content of a quoted CSV field, between its enclosing quotes: a pair of
\* quotes stands for one quote, and a single quote cannot occur
RECURSIVE Unquote(_)
Unquote(inner) ==
    IF inner = << >> THEN [ok |-> TRUE, value |-> << >>]
    ELSE IF Head(inner) # "\""
    THEN LET rest == Unquote(Tail(inner))
         IN  [ok |-> rest.ok, value |-> <<Head(inner)>> \o rest.value]
    ELSE IF Len(inner) >= 2 /\ inner[2] = "\""
    THEN LET rest == Unquote(Tail(Tail(inner)))
         IN  [ok |-> rest.ok, value |-> <<"\"">> \o rest.value]
    ELSE [ok |-> FALSE, value |-> << >>]

\* a text read as one field of a CSV record (RFC 4180): quoted, or free of
\* commas, quotes and line breaks
ParseCsvField(text) ==
    IF text # << >> /\ Head(text) = "\""
    THEN IF Len(text) >= 2 /\ text[Len(text)] = "\""
         THEN Unquote(SubSeq(text, 2, Len(text) - 1))
         ELSE [ok |-> FALSE, value |-> << >>]
    ELSE [ok |-> ~NeedsQuoting(text), value |-> text]

\* the number of quotes in a string
RECURSIVE CountQuotes(_)
CountQuotes(chars) ==
    IF chars = << >> THEN 0
    ELSE (IF Head(chars) = "\"" THEN 1 ELSE 0) + CountQuotes(Tail(chars))

\* C28: the result of escapeCsvField for a string reads back, as one CSV
\* field, as that string; a string with a comma, a quote, a carriage return
\* or a newline is wrapped in quotes with every quote inside doubled, any
\* other string is returned as it is, and null and undefined give the empty
\* string.
C28_EscapeRoundTrips ==
    fmt.op = "escapeCsvField" =>
        IF fmt.field.kind # "string" THEN fmt.out = << >>
        ELSE /\ ParseCsvField(fmt.out).ok
             /\ ParseCsvField(fmt.out).value = fmt.field.chars
             /\ IF NeedsQuoting(fmt.field.chars)
                THEN /\ Head(fmt.out) = "\""
                     /\ fmt.out[Len(fmt.out)] = "\""
                     /\ Len(fmt.out)
                            = Len(fmt.field.chars) + CountQuotes(fmt.field.chars) + 2
                     /\ CountQuotes(fmt.out)
                            = 2 * CountQuotes(fmt.field.chars) + 2
                ELSE fmt.out = fmt.field.chars

\* C28 witness: a field with a quote, a comma and a newline was escaped.
C28_Witness ==
    /\ fmt.op = "escapeCsvField"
    /\ fmt.field = StringField(<<"\"", ",", "\n">>)
    /\ fmt.out = <<"\"", "\"", "\"", ",", "\n", "\"">>

\* a number of hundredths written with exactly two decimal places
TwoPlaces(hundredths) ==
    toString(BigDiv(hundredths, BigInt(100))) \o <<".">>
        \o padStart(toString(BigMod(hundredths, BigInt(100))), 2, "0")

\* C30 (as claimed): for every multiplier m with 0 <= m <= S the
\* deduction_percentage column is (S - m) * 10000 / S hundredths of a percent
\* written with exactly two decimal places and a percent sign: 0.05% for 5,
\* 0.00% for m = S.
C30_PercentageHasTwoPlaces ==
    fmt.op = "deduction_percentage" =>
        /\ fmt.out = TwoPlaces(deductionBasisPoints(fmt.multiplier)) \o <<"%">>
        /\ Len(fmt.out) >= 5
        /\ fmt.out[Len(fmt.out) - 3] = "."

\* the satoshis a coin string "W.F" denotes: W * 10^8 + F
CoinSats(str) ==
    LET point == CHOOSE i \in 1..Len(str) : str[i] = "."
        whole == SubSeq(str, 1, point - 1)
        frac  == SubSeq(str, point + 1, Len(str))
    IN  BigAdd(BigMul(Big(FALSE, Norm(CharsToMag(whole))), BigInt(SATS)),
               Big(FALSE, Norm(CharsToMag(frac))))

\* C31: the string rendered for a final balance b >= 0 is W.F with one
\* point, digits only, W without leading zeros, F of exactly 8 digits, and
\* W * 10^8 + F = b.
C31_CoinStringIsExact ==
    fmt.op = "finalBalanceStr" =>
        LET str == fmt.out
        IN  /\ Len(str) >= COIN_DECIMALS + 2
            /\ str[Len(str) - COIN_DECIMALS] = "."
            /\ \A i \in 1..Len(str) :
                   i # Len(str) - COIN_DECIMALS => IsDigitChar(str[i])
            /\ str[1] = "0" => Len(str) = COIN_DECIMALS + 2
            /\ CoinSats(str) = fmt.finalBalance

\* C31 witness: the string of 1.00000001 coins, whose remainder needs seven
\* zeros of padding.
C31_Witness ==
    /\ fmt.op = "finalBalanceStr"
    /\ fmt.finalBalance = BigInt(100000001)
    /\ fmt.out = <<"1", ".", "0", "0", "0", "0", "0", "0", "0", "1">>

\* C32: the promise of a notification never rejects; it resolves to true
\* exactly when the webhook URL is set and the POST resolved; without a
\* webhook URL it resolves to false and no POST was made; when the POST
\* rejects it resolves to false.
C32_NotificationNeverRejects ==
    \A r \in ReqIds :
        /\ reqs[r].notif \in {"none", "dispatched", "true", "false"}
        /\ reqs[r].notif \in {"true", "false"} =>
               /\ reqs[r].seen.webhookUrl \in WebhookUrls
               /\ reqs[r].notif = "true" <=>
                      /\ reqs[r].seen.webhookUrl = "set"
                      /\ reqs[r].seen.post = "resolved"
               /\ reqs[r].seen.webhookUrl = "unset" =>
                      reqs[r].seen.post = "none" /\ reqs[r].notif = "false"
               /\ reqs[r].seen.post = "rejected" => reqs[r].notif = "false"
        /\ reqs[r].notif \in {"none", "dispatched"} =>
               reqs[r].seen.webhookUrl = "unread" /\ reqs[r].seen.post = "none"

\* C32 witness: with the webhook URL set, the POST of a notification has
\* rejected and the promise resolved to false.
C32_Witness ==
    \E r \in ReqIds :
        /\ reqs[r].seen.webhookUrl = "set"
        /\ reqs[r].seen.post = "rejected"
        /\ reqs[r].notif = "false"

\* C33: for every committed claim, the balance that was compared with the
\* claimed balance was read from the node while its tip was at the snapshot
\* height.
C33_BalanceReadAtSnapshotHeight ==
    \A r \in ReqIds :
        reqs[r].seen.inserted # 0 =>
            /\ reqs[r].seen.balanceReply = "balance"
            /\ reqs[r].seen.balanceTip = SNAPSHOT_HEIGHT

\* C34: when the total of the claimed balances is greater than the target, no
\* destination's final balance is greater than the sum of the balances
\* claimed for it, the last destination included.
C34_NoFinalAboveOriginal ==
    \A run \in OkRuns :
        OverTarget(run.snapshots) =>
            \A d \in Dests(run.snapshots) :
                ~BigGt(FinalOf(run, d), OriginalBalance(run.snapshots, d))

\* C35: the total_claimed and the total_claims of a successful response of
\* GET /total-claimed are the sum and the number of the claims the table held
\* at one instant (the table only grows, so at one of its prefixes), also
\* when a claim is committed between the two reads.  The null the table
\* answers for no rows is taken as the sum of no claims.
C35_TotalsOfOneClaimSet ==
    (reads.last.op = "total-claimed" /\ reads.last.status = 200) =>
        \E k \in 0..Len(store) :
            /\ reads.last.data.total_claims = k
            /\ reads.last.data.total_claimed = sum(SubSeq(store, 1, k))

====
